---- MODULE Spec2Model ----
(***************************************************************************)
(* Eplucon integration: the API client (eplucon_client.py), the update     *)
(* cycle (async_update_data in __init__.py), the sensors' reconciliation   *)
(* (sensor.py) and the setup and options flows (config_flow.py), as a      *)
(* state machine.                                                          *)
(***************************************************************************)
EXTENDS Integers, Sequences, FiniteSets, TLC

\* ------------------------------------------------------------- bounds ----
\* Longest tracked-device list of a configuration entry.
MaxDevices == 2
\* Longest 'data' array of a device listing response.
MaxListing == 2

\* -------------------------------------------------------- JSON values ----
\* A JSON value as Python sees it after response.json(): a tagged record.
\* t = "absent" stands for a key that the enclosing object does not have.
JAbsent == [t |-> "absent", n |-> 0, s |-> ""]
JNull == [t |-> "null", n |-> 0, s |-> ""]
JBool(b) == [t |-> "bool", n |-> IF b THEN 1 ELSE 0, s |-> ""]
JInt(k) == [t |-> "int", n |-> k, s |-> ""]
JStr(x) == [t |-> "str", n |-> 0, s |-> x]
\* A Python float, held as its value in hundredths: JFloat(150) is 1.5.
JFloat(c) == [t |-> "float", n |-> c, s |-> ""]

\* Python truthiness of a JSON value (`not auth_status`).
Truthy(j) ==
    CASE j.t = "null" -> FALSE
      [] j.t = "bool" -> j.n = 1
      [] j.t = "int" -> j.n # 0
      [] j.t = "str" -> j.s # ""
      [] OTHER -> FALSE

\* The values the 'auth' key of an envelope takes in the model.
AuthValues ==
    {JAbsent, JNull, JBool(TRUE), JBool(FALSE), JInt(0), JInt(1), JStr(""), JStr("ok")}

\* HTTP statuses of a response.
Statuses == {200, 401, 503}

\* ---------------------------------------------------------- exceptions ---
\* ApiAuthError and ApiError are two direct subclasses of Exception: neither
\* is caught by an `except` of the other.
ApiAuthError == "ApiAuthError"
ApiError == "ApiError"
KeyError == "KeyError"
TypeError == "TypeError"
ValueError == "ValueError"
AttributeError == "AttributeError"
NoError == "none"

\* What a call gives back: the exception it raises (NoError: it returns),
\* the HTTP status an ApiError message carries (0: none), the value returned.
Raise(e, code) == [exc |-> e, status |-> code, value |-> <<>>]
Return(v) == [exc |-> NoError, status |-> 0, value |-> v]

\* ------------------------------------------------- validate_response -----
validate_response_swapped(response) ==
    IF response.auth.t = "absent" THEN ApiAuthError
    ELSE IF ~Truthy(response.auth) THEN ApiError
    ELSE NoError

\* EpluconApi.validate_response: the exception raised for an envelope.
validate_response(response) ==
    IF response.auth.t = "absent" THEN ApiError
    ELSE IF ~Truthy(response.auth) THEN ApiAuthError
    ELSE NoError

\* ---------------------------------------------------- device identities --
\* const.SUPPORTED_TYPES: the allow-list of device types.
SUPPORTED_TYPES == {"heat_pump"}
DeviceTypes == {"heat_pump", "boiler"}

\* Unknown fields a listing entry may carry besides the identity.
ExtraFields == {"serial_number"}

NameOf(id) == IF id = 1 THEN "Ecoforest" ELSE IF id = 2 THEN "Cellar" ELSE "Annex"
IndexOf(id) == IF id = 1 THEN "idx-a" ELSE IF id = 2 THEN "idx-b" ELSE "idx-c"

\* One entry of the 'data' array of GET /econtrol/modules: the identity
\* fields and the names of the unknown fields it carries besides.
ListingEntries ==
    {[id |-> d, name |-> NameOf(d), type |-> ty,
      account_module_index |-> IndexOf(d), extra |-> x] :
        d \in 1..MaxListing, ty \in DeviceTypes, x \in SUBSET ExtraFields}

\* None, for a reference to an object.
None == 0

\* DeviceDTO(**device): the identity fields are taken, the others ignored.
DeviceDTO_init(device) ==
    [cls |-> "DeviceDTO", id |-> device.id, name |-> device.name,
     type |-> device.type, account_module_index |-> device.account_module_index,
     realtime_info |-> None, heatloading_status |-> None]

RECURSIVE MapSeq(_)
MapSeq(s) ==
    IF s = <<>> THEN <<>> ELSE <<DeviceDTO_init(Head(s))>> \o MapSeq(Tail(s))

RECURSIVE SeqsUpTo(_, _)
SeqsUpTo(S, n) ==
    IF n = 0 THEN {<<>>}
    ELSE SeqsUpTo(S, n - 1) \cup
         {Append(s, x) : s \in {q \in SeqsUpTo(S, n - 1) : Len(q) = n - 1}, x \in S}

\* ------------------------------------------------------ telemetry fields --
\* The fields of realtime_info.common that the descriptors of SENSORS read.
PLAIN_KEYS ==
    {"indoor_temperature", "act_vent_rpm", "brine_circulation_pump",
     "brine_in_temperature", "brine_out_temperature", "brine_pressure",
     "compressor_speed", "condensation_temperature",
     "configured_indoor_temperature", "cv_pressure", "energy_delivered",
     "energy_usage", "evaporation_temperature", "heating_in_temperature",
     "heating_out_temperature", "inverter_temperature", "operating_hours",
     "outdoor_temperature", "overheating", "press_gas_pressure",
     "press_gas_temperature", "production_circulation_pump",
     "suction_gas_pressure", "suction_gas_temperature", "total_active_power",
     "ww_temperature", "ww_temperature_configured", "spf",
     "position_expansion_ventil", "number_of_starts", "heating_mode",
     "operation_mode"}
ENERGY_KEYS == {"export_energy", "import_energy"}
BINARY_KEYS ==
    {"active_requests_ww", "dg1", "sg2", "sg3", "sg4", "warmwater",
     "alarm_active", "current_heating_pump_state", "current_heating_state"}
COMMON_FIELDS == PLAIN_KEYS \cup ENERGY_KEYS \cup BINARY_KEYS

\* The keys of heatloading_status.configurations that the descriptors read.
CONFIGURATION_KEYS == {"domestic_hot_water", "heatloading_for_heating"}

\* 'configurations' of a heat-loading payload: absent, null, or a mapping,
\* held as the value of each key (JAbsent: the mapping has no such key).
NoConfigurations ==
    [t |-> "absent", d |-> [k \in CONFIGURATION_KEYS |-> JAbsent]]
NullConfigurations ==
    [t |-> "null", d |-> [k \in CONFIGURATION_KEYS |-> JAbsent]]
Configurations(dhw, hfh) ==
    [t |-> "dict", d |-> [k \in CONFIGURATION_KEYS |->
                            IF k = "domestic_hot_water" THEN dhw ELSE hfh]]

\* ------------------------------------------------------- API responses ---
\* 'data' of a listing: absent, or an array of entries.
ListingData ==
    {[t |-> "absent", items |-> <<>>]} \cup
    {[t |-> "list", items |-> q] : q \in SeqsUpTo(ListingEntries, MaxListing)}

\* The 'common' object of a realtime payload, as the fields it reports.
CommonFields ==
    {[indoor_temperature |-> v] : v \in {JNull, JInt(210), JInt(215)}}

\* 'common' of a realtime payload: absent, null or an object.
NoCommonFields == [indoor_temperature |-> JAbsent]
CommonValues ==
    {[t |-> "absent", f |-> NoCommonFields], [t |-> "null", f |-> NoCommonFields]} \cup
    {[t |-> "obj", f |-> c] : c \in CommonFields}

\* 'heatpump' of a realtime payload: absent, or an opaque value.
HeatpumpValues == {JAbsent, JNull, JStr("raw")}

\* 'data' of a realtime response.
RealtimeData ==
    {[t |-> "absent", common |-> [t |-> "absent", f |-> NoCommonFields],
      heatpump |-> JAbsent]} \cup
    {[t |-> "obj", common |-> c, heatpump |-> h] : c \in CommonValues, h \in HeatpumpValues}

\* The fields of a heat-loading payload.
HeatLoadingFields ==
    {[heatloading_active |-> a, configurations |-> c] :
        a \in {JNull, JStr("OFF"), JStr("ON")},
        c \in {NullConfigurations, Configurations(JStr("on"), JStr("off"))}}

\* 'data' of a heat-loading response: absent, null or an object, with the
\* names of the unknown fields it carries besides.
NoHeatLoadingFields ==
    [heatloading_active |-> JAbsent, configurations |-> NoConfigurations]
HeatLoadingData ==
    {[t |-> "absent", f |-> NoHeatLoadingFields, extra |-> {}],
     [t |-> "null", f |-> NoHeatLoadingFields, extra |-> {}]} \cup
    {[t |-> "obj", f |-> c, extra |-> x] :
        c \in HeatLoadingFields, x \in SUBSET {"boost"}}

Responses(DataSet) ==
    {[status |-> st, body |-> [auth |-> a, data |-> d]] :
        st \in Statuses, a \in AuthValues, d \in DataSet}

\* ------------------------------------------------------ client methods ---
get_devices_reversed(response) ==
    LET Rev(s) == [k \in 1..Len(s) |-> s[Len(s) + 1 - k]]
        data == IF response.body.data.t = "absent" THEN <<>>
                ELSE response.body.data.items
    IN  IF response.status # 200 THEN Raise(ApiError, response.status)
        ELSE IF validate_response(response.body) # NoError
             THEN Raise(validate_response(response.body), 0)
        ELSE Return(Rev(MapSeq(data)))

\* EpluconApi.get_devices, given the response of the GET.
get_devices(response) ==
    LET data == IF response.body.data.t = "absent" THEN <<>>
                ELSE response.body.data.items
    IN  IF response.status # 200 THEN Raise(ApiError, response.status)
        ELSE IF validate_response(response.body) # NoError
             THEN Raise(validate_response(response.body), 0)
        ELSE Return(MapSeq(data))

\* CommonInfoDTO(**common): the declared fields, held as those the payload
\* reports; common_field reads one, None when the payload did not report it.
CommonInfoDTO_init(common) ==
    [f \in DOMAIN common \cap COMMON_FIELDS |-> common[f]]

common_field(common, f) == IF f \in DOMAIN common THEN common[f] ELSE JNull

\* HeatLoadingDTO(**data): the declared fields of the payload.
HeatLoadingDTO_init(d) ==
    [cls |-> "HeatLoadingDTO", heatloading_active |-> d.heatloading_active,
     configurations |-> d.configurations]

get_realtime_info_envelope_first(response) ==
    LET d == response.body.data
    IN  IF validate_response(response.body) # NoError
        THEN Raise(validate_response(response.body), 0)
        ELSE IF response.status # 200 THEN Raise(ApiError, response.status)
        ELSE IF d.t = "absent" \/ d.common.t = "absent" THEN Raise(KeyError, 0)
        ELSE IF d.common.t = "null" THEN Raise(TypeError, 0)
        ELSE IF d.heatpump.t = "absent" THEN Raise(KeyError, 0)
        ELSE Return([cls |-> "RealtimeInfoDTO",
                     common |-> CommonInfoDTO_init(d.common.f),
                     heatpump |-> d.heatpump])

get_realtime_info_lenient(response) ==
    LET d == response.body.data
    IN  IF response.status # 200 THEN Raise(ApiError, response.status)
        ELSE IF validate_response(response.body) # NoError
             THEN Raise(validate_response(response.body), 0)
        ELSE IF d.t = "absent" \/ d.common.t = "absent" THEN Raise(KeyError, 0)
        ELSE IF d.common.t = "null" THEN Raise(TypeError, 0)
        ELSE Return([cls |-> "RealtimeInfoDTO",
                     common |-> CommonInfoDTO_init(d.common.f),
                     heatpump |-> IF d.heatpump.t = "absent" THEN JNull
                                  ELSE d.heatpump])

\* EpluconApi.get_realtime_info, given the response of the GET.
get_realtime_info(response) ==
    LET d == response.body.data
    IN  IF response.status # 200 THEN Raise(ApiError, response.status)
        ELSE IF validate_response(response.body) # NoError
             THEN Raise(validate_response(response.body), 0)
        ELSE IF d.t = "absent" \/ d.common.t = "absent" THEN Raise(KeyError, 0)
        ELSE IF d.common.t = "null" THEN Raise(TypeError, 0)
        ELSE IF d.heatpump.t = "absent" THEN Raise(KeyError, 0)
        ELSE Return([cls |-> "RealtimeInfoDTO",
                     common |-> CommonInfoDTO_init(d.common.f),
                     heatpump |-> d.heatpump])

\* EpluconApi.get_heatpump_heatloading_status, given the response of the GET.
get_heatpump_heatloading_status(response) ==
    LET d == response.body.data
    IN  IF response.status # 200 THEN Raise(ApiError, response.status)
        ELSE IF validate_response(response.body) # NoError
             THEN Raise(validate_response(response.body), 0)
        ELSE IF d.t = "absent" THEN Raise(KeyError, 0)
        ELSE IF d.t = "null" THEN Raise(TypeError, 0)
        ELSE Return(HeatLoadingDTO_init(d.f))

\* ---------------------------------------------------------------- state ---
VARIABLES
    cl_pc,                \* client harness: "off", "ready" or "done"
    cl_op,                \* client harness: the method called
    cl_response,          \* client harness: the response it was given
    cl_result,            \* client harness: what the method gave back
    heap,                 \* the objects alive, by address
    entry_data_devices,   \* entry.data["devices"]: addresses of the tracked identities
    stage,                \* "init", "loaded" (first refresh done) or "sensors"
    coordinator_data,     \* coordinator.data: addresses of the published snapshots
    last_update_success,  \* coordinator.last_update_success
    pc,                   \* async_update_data: "idle", "loop", "realtime", "heatloading"
    entry_devices,        \* its local list of copied identity dicts
    i,                    \* its loop position in entry_devices
    entry_device,         \* its loop variable after device_dict_to_dto
    new_device,           \* its snapshot under construction
    final_devices,        \* its result list so far
    sensors,              \* <<id, key>> of each sensor entity -> the device it holds
    last_value,           \* <<id, key>> of each sensor entity -> its _last_value
    requests,             \* history: the requests the current (or last) cycle issued
    fetched,              \* history: the payloads the current cycle received so far
    outcome,              \* history: how the last finished cycle ended
    last_success,         \* history: the snapshots the last successful cycle returned
    detected,             \* history: ids that cycles found unsupported
    registered,           \* the device registry: what register_devices created
    fn_pc,                \* descriptor harness: "off", "ready", "checked" or "done"
    fn_key,               \* descriptor harness: the key of the descriptor
    fn_device,            \* descriptor harness: the device it is applied to
    fn_exists,            \* descriptor harness: what exists_fn returned
    fn_result,            \* descriptor harness: what value_fn returned or raised
    flow_pc,              \* flow harness: "off", "ready" or "done"
    step_id,              \* flow harness: "user" (setup flow) or "init" (options flow)
    user_input,           \* flow harness: the form's input, or NoInput
    flow_response,        \* flow harness: what the GET of the listing met
    errors,               \* flow harness: errors["base"] of the step, or "none"
    flow_result,          \* flow harness: "form" or "create_entry"
    config_entry,         \* flow harness: the data of the stored entry, or NoEntry
    log_pc,               \* header harness: "off", "ready", "built" or "logged"
    api_token,            \* header harness: the token EpluconApi is given
    headers,              \* header harness: self._headers
    sanitized             \* header harness: what the sanitizer returned

vars ==
    <<cl_pc, cl_op, cl_response, cl_result, heap, entry_data_devices, stage,
      coordinator_data, last_update_success, pc, entry_devices, i, entry_device,
      new_device, final_devices, sensors, last_value, requests, fetched, outcome,
      last_success, detected, registered, fn_pc, fn_key, fn_device, fn_exists, fn_result,
      flow_pc, step_id, user_input, flow_response, errors, flow_result,
      config_entry, log_pc, api_token, headers, sanitized>>

fnVars == <<fn_pc, fn_key, fn_device, fn_exists, fn_result>>

flowVars ==
    <<flow_pc, step_id, user_input, flow_response, errors, flow_result, config_entry>>

logVars == <<log_pc, api_token, headers, sanitized>>

clientVars == <<cl_pc, cl_op, cl_response, cl_result>>

cycleVars ==
    <<heap, entry_data_devices, stage, coordinator_data, last_update_success, pc,
      entry_devices, i, entry_device, new_device, final_devices, sensors,
      last_value, requests,
      fetched, outcome, last_success, detected, registered>>

\* ----------------------------------------------------------------- heap ---
\* The address a newly constructed object gets: one no live object has.
Alloc(h) ==
    CHOOSE a \in 1..(Cardinality(DOMAIN h) + 1) :
        a \notin DOMAIN h /\ \A b \in 1..(a - 1) : b \in DOMAIN h

Put(h, a, obj) == (a :> obj) @@ h

Range(s) == {s[k] : k \in DOMAIN s}

IsDevice(h, a) == a \in DOMAIN h /\ h[a].cls \in {"dict", "DeviceDTO"}

\* Reference counting: what no root reaches is gone.
Collect(h, roots) ==
    LET live == (roots \cap DOMAIN h) \cup
                {h[a].realtime_info : a \in {b \in roots : IsDevice(h, b)}} \cup
                {h[a].heatloading_status : a \in {b \in roots : IsDevice(h, b)}}
    IN  [a \in live \cap DOMAIN h |-> h[a]]

\* The roots of the next state.
RootsNext ==
    Range(entry_data_devices') \cup Range(coordinator_data') \cup Range(sensors')
    \cup Range(entry_devices') \cup {entry_device', new_device'}
    \cup Range(final_devices')

\* What a snapshot object says, read through its references.
SnapshotOf(h, a) ==
    LET rt == h[a].realtime_info
        hl == h[a].heatloading_status
    IN  [id |-> h[a].id, name |-> h[a].name, type |-> h[a].type,
         account_module_index |-> h[a].account_module_index,
         common |-> IF rt = None THEN NoCommonFields ELSE h[rt].common,
         heatpump |-> IF rt = None THEN JAbsent ELSE h[rt].heatpump,
         hl |-> IF hl = None THEN NoHeatLoadingFields
                ELSE [heatloading_active |-> h[hl].heatloading_active,
                      configurations |-> h[hl].configurations]]

SnapshotsOf(h, list) == [k \in 1..Len(list) |-> SnapshotOf(h, list[k])]

\* ------------------------------------------------------ update cycle ------
\* The list async_update_data copies: entry.data["devices"].
devices_to_copy_undetected ==
    SelectSeq(entry_data_devices, LAMBDA a : heap[a].id \notin detected)

devices_to_copy_reversed ==
    [k \in 1..Len(entry_data_devices) |->
        entry_data_devices[Len(entry_data_devices) + 1 - k]]

devices_to_copy == entry_data_devices

\* The copy of one tracked identity: a dict of its identity fields.
device_copy(obj) ==
    [cls |-> "dict", id |-> obj.id, name |-> obj.name, type |-> obj.type,
     account_module_index |-> obj.account_module_index,
     realtime_info |-> IF obj.cls = "dict" THEN obj.realtime_info ELSE None,
     heatloading_status |-> IF obj.cls = "dict" THEN obj.heatloading_status ELSE None]

\* The copies of a list of identities, each a new object: <<heap, addresses>>.
RECURSIVE CopyDevices(_, _, _)
CopyDevices(h, src, acc) ==
    IF src = <<>> THEN <<h, acc>>
    ELSE LET a == Alloc(h)
         IN  CopyDevices(Put(h, a, device_copy(h[Head(src)])), Tail(src),
                         Append(acc, a))

\* device_dict_to_dto: dacite's from_dict builds a DeviceDTO from the dict.
device_dict_to_dto(obj) ==
    [cls |-> "DeviceDTO", id |-> obj.id, name |-> obj.name, type |-> obj.type,
     account_module_index |-> obj.account_module_index,
     realtime_info |-> obj.realtime_info,
     heatloading_status |-> obj.heatloading_status]

\* const.DOMAIN and const.MANUFACTURER.
EPLUCON_DOMAIN == "eplucon"
MANUFACTURER == "Eplucon"

\* register_devices: one device of the registry for each tracked identity.
register_devices(h, devices) ==
    [k \in 1..Len(devices) |->
        LET device == device_dict_to_dto(h[devices[k]])
        IN  [identifiers |-> {<<EPLUCON_DOMAIN, device.account_module_index>>},
             manufacturer |-> MANUFACTURER,
             name |-> device.name,
             model |-> device.type]]

is_supported_any(type) == TRUE

\* `entry_device.type not in SUPPORTED_TYPES`, negated.
is_supported(type) == type \in SUPPORTED_TYPES

\* The published snapshot that has this id, or None.
PublishedWithId(id) ==
    IF \E k \in 1..Len(coordinator_data) : heap[coordinator_data[k]].id = id
    THEN coordinator_data[CHOOSE k \in 1..Len(coordinator_data) :
                              heap[coordinator_data[k]].id = id]
    ELSE None

new_device_address_reused(h, id) ==
    IF PublishedWithId(id) # None THEN PublishedWithId(id) ELSE Alloc(h)

\* Where `new_device = DeviceDTO(...)` lives: a newly constructed object.
new_device_address(h, id) == Alloc(h)

final_devices_prepend(list, a) == <<a>> \o list

\* final_devices.append(new_device)
final_devices_append(list, a) == Append(list, a)

reraises_auth_only(exc) == exc = ApiAuthError

reraises_api_error_only(exc) == exc = ApiError

\* The two handlers of async_update_data: both raise what they caught.
reraises(exc) == IF exc = ApiError THEN TRUE ELSE TRUE

\* One entry of the request history.
Request(op, id) ==
    [op |-> op, id |-> id, state |-> "pending", exc |-> NoError, status |-> 0]

\* One entry of the payload history: what was received for a device.
Fetched(id, rt) ==
    [id |-> id, common |-> rt.common, heatpump |-> rt.heatpump,
     hl |-> NoHeatLoadingFields]

NoOutcome == [kind |-> "none", exc |-> NoError, status |-> 0, has_list |-> FALSE]

\* The last request of the history, answered.
Answered(reqs, res) ==
    [reqs EXCEPT ![Len(reqs)] =
        IF res.exc # NoError
        THEN [@ EXCEPT !.state = "failed", !.exc = res.exc, !.status = res.status]
        ELSE [@ EXCEPT !.state = "ok"]]

\* The responses the server gives a cycle: the well-formed payloads, and one
\* response of each kind that a client method refuses.
CycleCommon == {[indoor_temperature |-> JInt(210)], [indoor_temperature |-> JInt(215)]}
CycleHeatLoading ==
    {[heatloading_active |-> a,
      configurations |-> Configurations(JStr("on"), JStr("off"))] :
        a \in {JStr("OFF"), JStr("ON")}}

Refused(DataSet) ==
    {r \in Responses(DataSet) :
        /\ r.status \in {200, 503}
        /\ r.body.auth \in {JAbsent, JBool(FALSE), JBool(TRUE)}
        /\ r.body.data.t = "absent"}

CycleRealtimeResponses ==
    Refused(RealtimeData) \cup
    {[status |-> 200,
      body |-> [auth |-> JBool(TRUE),
                data |-> [t |-> "obj", common |-> c, heatpump |-> JStr("raw")]]] :
        c \in {[t |-> "null", f |-> NoCommonFields]} \cup
               {[t |-> "obj", f |-> x] : x \in CycleCommon}}

CycleHeatLoadingResponses ==
    Refused(HeatLoadingData) \cup
    {[status |-> 200,
      body |-> [auth |-> JBool(TRUE), data |-> [t |-> "obj", f |-> x, extra |-> {}]]] :
        x \in CycleHeatLoading}

\* ------------------------------------------------------------- sensors ----
\* The keys of the descriptors of SENSORS.
TEXT_KEYS == {"operation_mode_text", "heating_mode_text"}
HEATLOADING_KEYS ==
    {"heatloading_active", "domestic_hot_water", "heatloading_for_heating"}
SENSOR_KEYS ==
    PLAIN_KEYS \cup ENERGY_KEYS \cup BINARY_KEYS \cup HEATLOADING_KEYS \cup TEXT_KEYS

IsNone(j) == j.t \in {"null", "absent"}

\* A device as a descriptor reads it: its realtime_info and
\* heatloading_status followed, t = "none" where the attribute is None.
NoRealtimeInfo == [t |-> "none", common |-> NoCommonFields]
NoHeatLoadingStatus ==
    [t |-> "none", heatloading_active |-> JAbsent, configurations |-> NoConfigurations]
DeviceView(h, a) ==
    LET rt == h[a].realtime_info
        hl == h[a].heatloading_status
    IN  [id |-> h[a].id,
         realtime_info |->
             IF rt = None THEN NoRealtimeInfo
             ELSE [t |-> "obj", common |-> h[rt].common],
         heatloading_status |->
             IF hl = None THEN NoHeatLoadingStatus
             ELSE [t |-> "obj", heatloading_active |-> h[hl].heatloading_active,
                   configurations |-> h[hl].configurations]]

\* The field of realtime_info.common that the exists_fn of a descriptor tests.
exists_field(key) ==
    CASE key = "operation_mode_text" -> "operation_mode"
      [] key = "heating_mode_text" -> "heating_mode"
      [] OTHER -> key

\* description.exists_fn(device)
exists_fn(key, device) ==
    LET rt == device.realtime_info
        hl == device.heatloading_status
    IN  CASE key = "heatloading_active" ->
                 hl.t # "none" /\ ~IsNone(hl.heatloading_active)
          [] key \in {"domestic_hot_water", "heatloading_for_heating"} ->
                 /\ hl.t # "none"
                 /\ ~IsNone(hl.configurations)
                 /\ hl.configurations.d[key] # JAbsent
          [] OTHER ->
                 rt.t # "none" /\ ~IsNone(common_field(rt.common, exists_field(key)))

\* int(x) of Python, for the values a mode code takes.
NumericStrings == {"0", "1", "2", "3", "4", "5", "99"}
int_of_str(s) ==
    CASE s = "0" -> 0 [] s = "1" -> 1 [] s = "2" -> 2 [] s = "3" -> 3
      [] s = "4" -> 4 [] s = "5" -> 5 [] s = "99" -> 99
int(x) ==
    CASE x.t = "int" -> Return(x.n)
      [] x.t = "bool" -> Return(x.n)
      [] x.t = "float" -> Return(IF x.n >= 0 THEN x.n \div 100 ELSE -((-x.n) \div 100))
      [] x.t = "str" ->
             IF x.s \in NumericStrings THEN Return(int_of_str(x.s))
             ELSE Raise(ValueError, 0)
      [] OTHER -> Raise(TypeError, 0)

\* The texts of the two mode lookups.
operation_mode_text_english(code) ==
    CASE code = 1 -> "Cooling"
      [] code = 2 -> "Heating"
      [] code = 3 -> "Auto-thermostat"
      [] code = 4 -> "Auto heat-pump"
      [] code = 5 -> "Fireplace"
      [] OTHER -> "Unknown operation mode"

operation_mode_text(code) ==
    CASE code = 1 -> "Koeling"
      [] code = 2 -> "Verwarming"
      [] code = 3 -> "Auto th-TOUCH"
      [] code = 4 -> "Auto Wp"
      [] code = 5 -> "Haard"
      [] OTHER -> "Unknown operation mode"

heating_mode_text(code) ==
    CASE code = 0 -> "Off"
      [] code = 1 -> "On"
      [] code = 2 -> "Emergency operation"
      [] code = 3 -> "APX"
      [] OTHER -> "Unknown heating mode"

\* get_friendly_operation_mode_text(device): TypeError and ValueError of the
\* conversion are caught, an AttributeError of the attribute chain is not.
get_friendly_operation_mode_text(device) ==
    IF device.realtime_info.t = "none" THEN Raise(AttributeError, 0)
    ELSE LET operation_mode == int(common_field(device.realtime_info.common, "operation_mode"))
         IN  IF operation_mode.exc \in {TypeError, ValueError}
             THEN Return(JStr("Unavailable"))
             ELSE Return(JStr(operation_mode_text(operation_mode.value)))

get_friendly_heating_mode_text_falsy(device) ==
    IF device.realtime_info.t = "none" THEN Raise(AttributeError, 0)
    ELSE LET heating_mode == int(common_field(device.realtime_info.common, "heating_mode"))
         IN  IF heating_mode.exc \in {TypeError, ValueError} \/ heating_mode.value = 0
             THEN Return(JStr("Unavailable"))
             ELSE Return(JStr(heating_mode_text(heating_mode.value)))

\* get_friendly_heating_mode_text(device)
get_friendly_heating_mode_text(device) ==
    IF device.realtime_info.t = "none" THEN Raise(AttributeError, 0)
    ELSE LET heating_mode == int(common_field(device.realtime_info.common, "heating_mode"))
         IN  IF heating_mode.exc \in {TypeError, ValueError}
             THEN Return(JStr("Unavailable"))
             ELSE Return(JStr(heating_mode_text(heating_mode.value)))

\* The value of a number in hundredths.
Hundredths(x) == IF x.t = "float" THEN x.n ELSE 100 * x.n

scale_always(raw) ==
    IF raw.t \notin {"int", "float"} THEN Raise(TypeError, 0)
    ELSE Return(JFloat(Hundredths(raw) \div 100))

\* `x / 100 if x > 0 else x` of export_energy and import_energy: the
\* comparison of None or of a string with 0 raises TypeError.
scale(raw) ==
    IF raw.t \notin {"int", "float"} THEN Raise(TypeError, 0)
    ELSE IF Hundredths(raw) > 0 THEN Return(JFloat(Hundredths(raw) \div 100))
    ELSE Return(raw)

normalize_truthy(raw) == IF Truthy(raw) THEN JStr("ON") ELSE JStr("OFF")

\* `"ON" if x in ["ON", "1"] else "OFF"` of the binary-coded descriptors.
normalize(raw) ==
    IF raw \in {JStr("ON"), JStr("1")} THEN JStr("ON") ELSE JStr("OFF")

\* The key of configurations that the value_fn of a descriptor reads.
configurations_key(key) ==
    CASE key = "domestic_hot_water" -> "domestic_hot_water"
      [] key = "heatloading_for_heating" -> "domestic_hot_water"

\* description.value_fn(device): what it returns or raises.
value_fn(key, device) ==
    LET rt == device.realtime_info
        hl == device.heatloading_status
    IN  CASE key = "operation_mode_text" -> get_friendly_operation_mode_text(device)
          [] key = "heating_mode_text" -> get_friendly_heating_mode_text(device)
          [] key = "heatloading_active" ->
                 IF hl.t = "none" THEN Raise(AttributeError, 0)
                 ELSE Return(hl.heatloading_active)
          [] key \in {"domestic_hot_water", "heatloading_for_heating"} ->
                 IF hl.t = "none" THEN Raise(AttributeError, 0)
                 ELSE IF IsNone(hl.configurations) THEN Raise(TypeError, 0)
                 ELSE IF hl.configurations.d[configurations_key(key)] = JAbsent
                      THEN Raise(KeyError, 0)
                 ELSE Return(hl.configurations.d[configurations_key(key)])
          [] key \in ENERGY_KEYS ->
                 IF rt.t = "none" THEN Raise(AttributeError, 0)
                 ELSE scale(common_field(rt.common, key))
          [] key \in BINARY_KEYS ->
                 IF rt.t = "none" THEN Raise(AttributeError, 0)
                 ELSE Return(normalize(common_field(rt.common, key)))
          [] OTHER ->
                 IF rt.t = "none" THEN Raise(AttributeError, 0)
                 ELSE Return(common_field(rt.common, key))

native_value_propagates(key, device) == value_fn(key, device)

\* EpluconSensorEntity.native_value: any exception of value_fn is caught and
\* None returned.
native_value(key, device) ==
    IF value_fn(key, device).exc # NoError THEN Return(JNull)
    ELSE Return(value_fn(key, device).value)

update_device_data_keep(h, data, held) == held

update_device_data_by_position(h, data, held) ==
    IF data # <<>> THEN data[1] ELSE held

\* EpluconSensorEntity._update_device_data: the device the sensor holds after
\* it: the first of coordinator.data with the id of the held one, if any.
update_device_data(h, data, held) ==
    IF \E k \in 1..Len(data) : h[data[k]].id = h[held].id
    THEN data[CHOOSE k \in 1..Len(data) :
                  /\ h[data[k]].id = h[held].id
                  /\ \A m \in 1..(k - 1) : h[data[m]].id # h[held].id]
    ELSE held

UpdateSensors_removing(h, data, sens) ==
    [k \in {sk \in DOMAIN sens : \E m \in 1..Len(data) : h[data[m]].id = sk[1]} |->
        update_device_data(h, data, sens[k])]

\* _handle_coordinator_update of every sensor entity.
UpdateSensors(h, data, sens) ==
    [k \in DOMAIN sens |-> update_device_data(h, data, sens[k])]

CreateSensors_unguarded(h, data) ==
    LET DeviceOf(sk) == CHOOSE a \in Range(data) : h[a].id = sk[1]
    IN  [sk \in {<<h[data[k]].id, key>> : k \in 1..Len(data), key \in SENSOR_KEYS} |->
            update_device_data(h, data, DeviceOf(sk))]

\* sensor.async_setup_entry: one entity for each device of coordinator.data
\* and each descriptor whose exists_fn holds of it.
CreateSensors(h, data) ==
    LET made == {<<data[k], key>> : k \in 1..Len(data), key \in SENSOR_KEYS}
        kept == {m \in made : exists_fn(m[2], DeviceView(h, m[1]))}
        DeviceOf(sk) == CHOOSE a \in Range(data) :
                            h[a].id = sk[1] /\ <<a, sk[2]>> \in kept
    IN  [sk \in {<<h[m[1]].id, m[2]>> : m \in kept} |->
            update_device_data(h, data, DeviceOf(sk))]

NoSensors == [sk \in {} |-> None]

\* _handle_coordinator_update of every sensor entity, after its
\* _update_device_data: the native_value it reads, keeps as _last_value and
\* writes as its state.
HandleCoordinatorUpdate(h, sens) ==
    [sk \in DOMAIN sens |-> native_value(sk[2], DeviceView(h, sens[sk]))]

\* The entities as EpluconSensorEntity.__init__ leaves them: the attribute
\* _last_value is not set.
Unset == [exc |-> "unset", status |-> 0, value |-> JAbsent]
NoLastValue(sens) == [sk \in DOMAIN sens |-> Unset]

\* ------------------------------------------------------------- actions ----
LocalsCleared ==
    /\ entry_devices' = <<>>
    /\ i' = 0
    /\ entry_device' = None
    /\ new_device' = None
    /\ final_devices' = <<>>

\* async_update_data starts: the tracked identities are copied.
StartCycle ==
    /\ pc = "idle"
    /\ cl_pc = "off"
    /\ LET copies == CopyDevices(heap, devices_to_copy, <<>>)
       IN  /\ entry_devices' = copies[2]
           /\ i' = 1
           /\ entry_device' = None
           /\ new_device' = None
           /\ final_devices' = <<>>
           /\ pc' = "loop"
           /\ requests' = <<>>
           /\ fetched' = <<>>
           /\ outcome' = NoOutcome
           /\ UNCHANGED <<entry_data_devices, stage, coordinator_data,
                          last_update_success, sensors, last_value, last_success, detected>>
           /\ heap' = Collect(copies[1], RootsNext)
    /\ UNCHANGED <<clientVars, fnVars, flowVars, logVars, registered>>

\* One identity of an unsupported type: `continue`.
SkipUnsupported ==
    /\ pc = "loop"
    /\ i <= Len(entry_devices)
    /\ LET dto == device_dict_to_dto(heap[entry_devices[i]])
           a == Alloc(heap)
       IN  /\ ~is_supported(dto.type)
           /\ entry_device' = a
           /\ i' = i + 1
           /\ detected' = detected \cup {dto.id}
           /\ UNCHANGED <<entry_data_devices, stage, coordinator_data,
                          last_update_success, pc, entry_devices, new_device,
                          final_devices, sensors, last_value, requests, fetched, outcome,
                          last_success>>
           /\ heap' = Collect(Put(heap, a, dto), RootsNext)
    /\ UNCHANGED <<clientVars, fnVars, flowVars, logVars, registered>>

\* One identity of a supported type: the realtime request goes out.
RequestRealtime ==
    /\ pc = "loop"
    /\ i <= Len(entry_devices)
    /\ LET dto == device_dict_to_dto(heap[entry_devices[i]])
           a == Alloc(heap)
       IN  /\ is_supported(dto.type)
           /\ entry_device' = a
           /\ pc' = "realtime"
           /\ requests' = Append(requests, Request("get_realtime_info", dto.id))
           /\ UNCHANGED <<entry_data_devices, stage, coordinator_data,
                          last_update_success, entry_devices, i, new_device,
                          final_devices, sensors, last_value, fetched, outcome, last_success,
                          detected>>
           /\ heap' = Collect(Put(heap, a, dto), RootsNext)
    /\ UNCHANGED <<clientVars, fnVars, flowVars, logVars, registered>>

\* The cycle ends with the exception of `res`: the coordinator keeps its data,
\* marks the update failed and tells its listeners if the last one succeeded.
CycleFailed(res) ==
    /\ pc' = "idle"
    /\ LocalsCleared
    /\ last_update_success' = FALSE
    /\ outcome' = [kind |-> "failed", exc |-> res.exc, status |-> res.status,
                   has_list |-> FALSE]
    /\ sensors' = IF last_update_success
                  THEN UpdateSensors(heap, coordinator_data, sensors)
                  ELSE sensors
    /\ last_value' = IF last_update_success
                     THEN HandleCoordinatorUpdate(heap, sensors')
                     ELSE last_value
    /\ fetched' = <<>>
    /\ UNCHANGED <<entry_data_devices, stage, coordinator_data, last_success,
                   detected>>
    /\ heap' = Collect(heap, RootsNext)

\* A swallowed exception would let the loop go on with the next identity.
CycleGoesOn ==
    /\ pc' = "loop"
    /\ i' = i + 1
    /\ UNCHANGED <<heap, entry_data_devices, stage, coordinator_data,
                   last_update_success, entry_devices, entry_device, new_device,
                   final_devices, sensors, last_value, fetched, outcome, last_success, detected>>

\* The realtime response arrives.
ReceiveRealtime ==
    /\ pc = "realtime"
    /\ \E r \in CycleRealtimeResponses :
        LET res == get_realtime_info(r)
            id == heap[entry_device].id
        IN  /\ requests' =
                   IF res.exc # NoError THEN Answered(requests, res)
                   ELSE Append(Answered(requests, res),
                               Request("get_heatpump_heatloading_status", id))
            /\ IF res.exc # NoError
               THEN IF reraises(res.exc) THEN CycleFailed(res) ELSE CycleGoesOn
               ELSE LET rt == Alloc(heap)
                        h1 == Put(heap, rt, res.value)
                        nd == new_device_address(h1, id)
                        h2 == Put(h1, nd,
                                  [cls |-> "DeviceDTO", id |-> heap[entry_device].id,
                                   name |-> heap[entry_device].name,
                                   type |-> heap[entry_device].type,
                                   account_module_index |->
                                       heap[entry_device].account_module_index,
                                   realtime_info |-> rt,
                                   heatloading_status |-> None])
                    IN  /\ new_device' = nd
                        /\ pc' = "heatloading"
                        /\ fetched' = Append(fetched, Fetched(id, res.value))
                        /\ UNCHANGED <<entry_data_devices, stage, coordinator_data,
                                       last_update_success, entry_devices, i,
                                       entry_device, final_devices, sensors, last_value, outcome,
                                       last_success, detected>>
                        /\ heap' = Collect(h2, RootsNext)
    /\ UNCHANGED <<clientVars, fnVars, flowVars, logVars, registered>>

\* The heat-loading response arrives.
ReceiveHeatloading ==
    /\ pc = "heatloading"
    /\ \E r \in CycleHeatLoadingResponses :
        LET res == get_heatpump_heatloading_status(r)
        IN  /\ requests' = Answered(requests, res)
            /\ IF res.exc # NoError
               THEN IF reraises(res.exc) THEN CycleFailed(res) ELSE CycleGoesOn
               ELSE LET hl == Alloc(heap)
                        h1 == Put(heap, hl, res.value)
                        h2 == [h1 EXCEPT ![new_device].heatloading_status = hl]
                    IN  /\ final_devices' = final_devices_append(final_devices, new_device)
                        /\ i' = i + 1
                        /\ pc' = "loop"
                        /\ fetched' =
                               [fetched EXCEPT ![Len(fetched)].hl =
                                   [heatloading_active |-> res.value.heatloading_active,
                                    configurations |-> res.value.configurations]]
                        /\ UNCHANGED <<entry_data_devices, stage, coordinator_data,
                                       last_update_success, entry_devices, entry_device,
                                       new_device, sensors, last_value, outcome, last_success,
                                       detected>>
                        /\ heap' = Collect(h2, RootsNext)
    /\ UNCHANGED <<clientVars, fnVars, flowVars, logVars, registered>>

\* The loop is over: final_devices is returned, the coordinator publishes it
\* and tells the sensors; the sensor platform, when it is being set up,
\* creates its entities from it.
FinishCycle ==
    /\ pc = "loop"
    /\ i > Len(entry_devices)
    /\ coordinator_data' = final_devices
    /\ last_update_success' = TRUE
    /\ stage' = IF stage = "init" THEN "loaded" ELSE "sensors"
    /\ sensors' = IF stage = "init" THEN sensors
                  ELSE IF stage = "loaded" THEN CreateSensors(heap, final_devices)
                  ELSE UpdateSensors(heap, final_devices, sensors)
    /\ last_value' = IF stage = "init" THEN last_value
                     ELSE IF stage = "loaded" THEN NoLastValue(sensors')
                     ELSE HandleCoordinatorUpdate(heap, sensors')
    /\ outcome' = [kind |-> "success", exc |-> NoError, status |-> 0,
                   has_list |-> TRUE]
    /\ last_success' = SnapshotsOf(heap, final_devices)
    /\ pc' = "idle"
    /\ LocalsCleared
    /\ fetched' = <<>>
    /\ UNCHANGED <<entry_data_devices, requests, detected>>
    /\ heap' = Collect(heap, RootsNext)
    /\ UNCHANGED <<clientVars, fnVars, flowVars, logVars, registered>>

\* The scheduler cancels the cycle while it waits for a response.
CancelCycle ==
    /\ pc \in {"realtime", "heatloading"}
    /\ pc' = "idle"
    /\ LocalsCleared
    /\ outcome' = [kind |-> "cancelled", exc |-> NoError, status |-> 0,
                   has_list |-> FALSE]
    /\ fetched' = <<>>
    /\ UNCHANGED <<entry_data_devices, stage, coordinator_data,
                   last_update_success, sensors, last_value, requests, last_success, detected>>
    /\ heap' = Collect(heap, RootsNext)
    /\ UNCHANGED <<clientVars, fnVars, flowVars, logVars, registered>>

\* ------------------------------------------------------ client harness ----
ClientValidate ==
    /\ cl_pc = "ready"
    /\ \E a \in AuthValues :
        LET env == [auth |-> a, data |-> [t |-> "absent", items |-> <<>>]]
        IN  /\ cl_response' = [status |-> 200, body |-> env]
            /\ cl_result' = IF validate_response(env) = NoError THEN Return(<<>>)
                            ELSE Raise(validate_response(env), 0)
    /\ cl_op' = "validate_response"
    /\ cl_pc' = "done"
    /\ UNCHANGED <<cycleVars, fnVars, flowVars, logVars>>

ClientGetDevices ==
    /\ cl_pc = "ready"
    /\ \E r \in Responses(ListingData) :
        /\ cl_response' = r
        /\ cl_result' = get_devices(r)
    /\ cl_op' = "get_devices"
    /\ cl_pc' = "done"
    /\ UNCHANGED <<cycleVars, fnVars, flowVars, logVars>>

ClientGetRealtimeInfo ==
    /\ cl_pc = "ready"
    /\ \E r \in Responses(RealtimeData) :
        /\ cl_response' = r
        /\ cl_result' = get_realtime_info(r)
    /\ cl_op' = "get_realtime_info"
    /\ cl_pc' = "done"
    /\ UNCHANGED <<cycleVars, fnVars, flowVars, logVars>>

ClientGetHeatloading ==
    /\ cl_pc = "ready"
    /\ \E r \in Responses(HeatLoadingData) :
        /\ cl_response' = r
        /\ cl_result' = get_heatpump_heatloading_status(r)
    /\ cl_op' = "get_heatpump_heatloading_status"
    /\ cl_pc' = "done"
    /\ UNCHANGED <<cycleVars, fnVars, flowVars, logVars>>

\* ------------------------------------------------- coordinator refresh ----
\* What one run of async_update_data gives, from the tracked identities
\* `devs` on: the exception it raises or the list it returns, and the heap
\* it leaves. rts and hls are the responses of the server, by position.
RECURSIVE async_update_data(_, _, _, _, _)
async_update_data(h, devs, rts, hls, acc) ==
    IF devs = <<>>
    THEN [exc |-> NoError, status |-> 0, heap |-> h, final_devices |-> acc]
    ELSE
      LET dto == device_dict_to_dto(device_copy(h[Head(devs)]))
          rt_res == get_realtime_info(Head(rts))
          hl_res == get_heatpump_heatloading_status(Head(hls))
          rt == Alloc(h)
          h1 == Put(h, rt, rt_res.value)
          nd == new_device_address(h1, dto.id)
          h2 == Put(h1, nd, [dto EXCEPT !.realtime_info = rt,
                                        !.heatloading_status = None])
          hl == Alloc(h2)
          h3 == Put(h2, hl, hl_res.value)
          h4 == [h3 EXCEPT ![nd].heatloading_status = hl]
      IN  IF ~is_supported(dto.type)
          THEN async_update_data(h, Tail(devs), Tail(rts), Tail(hls), acc)
          ELSE IF rt_res.exc # NoError
          THEN [exc |-> rt_res.exc, status |-> rt_res.status, heap |-> h,
                final_devices |-> <<>>]
          ELSE IF hl_res.exc # NoError
          THEN [exc |-> hl_res.exc, status |-> hl_res.status, heap |-> h,
                final_devices |-> <<>>]
          ELSE async_update_data(h4, Tail(devs), Tail(rts), Tail(hls),
                                 final_devices_append(acc, nd))

\* An object's address is a name the program cannot observe. The sensor
\* model names the live objects in one fixed order after every step: the
\* tracked identities, the published snapshots, then the snapshots that
\* only sensors still hold (by device id), each followed by its payloads.
RECURSIVE Flatten(_)
Flatten(ss) == IF ss = <<>> THEN <<>> ELSE Head(ss) \o Flatten(Tail(ss))

WithPayloads(h, a) ==
    <<a>> \o (IF h[a].realtime_info = None THEN <<>> ELSE <<h[a].realtime_info>>)
          \o (IF h[a].heatloading_status = None THEN <<>>
              ELSE <<h[a].heatloading_status>>)

HeldOnly(h, data, sens) ==
    LET ids == {h[a].id : a \in Range(sens) \ Range(data)}
        OfId(id) == CHOOSE a \in Range(sens) \ Range(data) : h[a].id = id
        RECURSIVE ById(_)
        ById(k) == IF k > MaxDevices THEN <<>>
                   ELSE (IF k \in ids THEN <<OfId(k)>> ELSE <<>>) \o ById(k + 1)
    IN  ById(1)

Renamed(h, tracked, data, sens) ==
    LET devices == tracked \o data \o HeldOnly(h, data, sens)
        order == Flatten([k \in 1..Len(devices) |-> WithPayloads(h, devices[k])])
        name(a) == IF a = None THEN None
                   ELSE CHOOSE k \in 1..Len(order) : order[k] = a
        object(a) == IF IsDevice(h, a)
                     THEN [h[a] EXCEPT !.realtime_info = name(@),
                                       !.heatloading_status = name(@)]
                     ELSE h[a]
    IN  [heap |-> [k \in 1..Len(order) |-> object(order[k])],
         entry_data_devices |-> [k \in 1..Len(tracked) |-> name(tracked[k])],
         coordinator_data |-> [k \in 1..Len(data) |-> name(data[k])],
         sensors |-> [sk \in DOMAIN sens |-> name(sens[sk])]]

\* The payloads the server gives a device in the sensor model: one where
\* every field the model follows is reported, one where the temperature has
\* changed, two fields are null and configurations lacks a key.
SensorPayloads ==
    {[common |-> [indoor_temperature |-> JInt(210), dg1 |-> JStr("ON"),
                  export_energy |-> JInt(150)],
      hl |-> [heatloading_active |-> JStr("ON"),
              configurations |-> Configurations(JStr("on"), JStr("off"))]],
     [common |-> [indoor_temperature |-> JInt(215), dg1 |-> JNull,
                  export_energy |-> JNull],
      hl |-> [heatloading_active |-> JStr("ON"),
              configurations |-> Configurations(JAbsent, JStr("off"))]]}

Envelope(st, d) == [status |-> st, body |-> [auth |-> JBool(TRUE), data |-> d]]

\* The two responses for one device: of a payload, or a refusal.
SensorAnswers ==
    {[rt |-> Envelope(200, [t |-> "obj", common |-> [t |-> "obj", f |-> p.common],
                            heatpump |-> JStr("raw")]),
      hl |-> Envelope(200, [t |-> "obj", f |-> p.hl, extra |-> {}])] :
        p \in SensorPayloads}

SensorRefusals ==
    {[rt |-> Envelope(503, [t |-> "absent",
                            common |-> [t |-> "absent", f |-> NoCommonFields],
                            heatpump |-> JAbsent]),
      hl |-> Envelope(503, [t |-> "absent", f |-> NoHeatLoadingFields,
                            extra |-> {}])]}

\* The responses of one refresh, by position in the tracked list: every
\* device is answered, or the server refuses from the first request on (a
\* refusal ends the run wherever it comes).
SensorResponses(n) ==
    [1..n -> SensorAnswers] \cup [1..n -> SensorRefusals]

\* One refresh of the coordinator, first or periodic: async_update_data
\* runs; its list is published and the listeners told, or its exception
\* marks the update failed. At the setup of the sensor platform the
\* entities are created from the list.
Refresh ==
    /\ pc = "idle"
    /\ UNCHANGED <<pc, entry_devices, i, entry_device, new_device, final_devices,
                   requests, fetched, detected>>
    /\ UNCHANGED <<clientVars, fnVars, flowVars, logVars, registered>>
    /\ \E rs \in SensorResponses(Len(entry_data_devices)) :
        LET rts == [k \in 1..Len(entry_data_devices) |-> rs[k].rt]
            hls == [k \in 1..Len(entry_data_devices) |-> rs[k].hl]
            run == async_update_data(heap, devices_to_copy, rts, hls, <<>>)
            held_failed == IF last_update_success
                           THEN UpdateSensors(heap, coordinator_data, sensors)
                           ELSE sensors
            failed == Renamed(heap, entry_data_devices, coordinator_data, held_failed)
            held == IF stage = "init" THEN sensors
                    ELSE IF stage = "loaded"
                         THEN CreateSensors(run.heap, run.final_devices)
                    ELSE UpdateSensors(run.heap, run.final_devices, sensors)
            done == Renamed(run.heap, entry_data_devices, run.final_devices, held)
        IN  IF run.exc # NoError
            THEN /\ last_update_success' = FALSE
                 /\ outcome' = [kind |-> "failed", exc |-> run.exc,
                                status |-> run.status, has_list |-> FALSE]
                 /\ last_value' = IF last_update_success
                                  THEN HandleCoordinatorUpdate(heap, held_failed)
                                  ELSE last_value
                 /\ UNCHANGED <<stage, last_success>>
                 /\ heap' = failed.heap
                 /\ entry_data_devices' = failed.entry_data_devices
                 /\ coordinator_data' = failed.coordinator_data
                 /\ sensors' = failed.sensors
            ELSE /\ last_update_success' = TRUE
                 /\ outcome' = [kind |-> "success", exc |-> NoError, status |-> 0,
                                has_list |-> TRUE]
                 /\ stage' = IF stage = "init" THEN "loaded" ELSE "sensors"
                 /\ last_value' =
                        IF stage = "init" THEN last_value
                        ELSE IF stage = "loaded" THEN NoLastValue(held)
                        ELSE HandleCoordinatorUpdate(run.heap, held)
                 /\ last_success' = SnapshotsOf(run.heap, run.final_devices)
                 /\ heap' = done.heap
                 /\ entry_data_devices' = done.entry_data_devices
                 /\ coordinator_data' = done.coordinator_data
                 /\ sensors' = done.sensors

\* The listings the options flow is given: each device once, by ascending id.
OptionsListings ==
    {q \in SeqsUpTo({e \in ListingEntries : e.extra = {} /\ e.id <= MaxDevices},
                    MaxDevices) :
        \A k \in 1..(Len(q) - 1) : q[k].id < q[k + 1].id}

\* The identities of a list, each a new object: <<heap, addresses>>.
RECURSIVE StoreDevices(_, _, _)
StoreDevices(h, devices, acc) ==
    IF devices = <<>> THEN <<h, acc>>
    ELSE LET a == Alloc(h)
         IN  StoreDevices(Put(h, a, Head(devices)), Tail(devices), Append(acc, a))

\* EpluconOptionsFlowHandler.async_step_init with user input: the devices
\* are listed and, if one of them is supported, the supported ones replace
\* entry.data["devices"]; the running coordinator is not reloaded.
OptionsUpdate ==
    /\ pc = "idle"
    /\ stage = "sensors"
    /\ \E q \in OptionsListings :
        LET devices == get_devices(Envelope(200, [t |-> "list", items |-> q]))
            supported_devices ==
                SelectSeq(devices.value, LAMBDA d : is_supported(d.type))
            stored == StoreDevices(heap, supported_devices, <<>>)
        IN  /\ devices.exc = NoError
            /\ Len(supported_devices) > 0
            /\ UNCHANGED <<stage, last_update_success, pc, entry_devices, i,
                           entry_device, new_device, final_devices, last_value,
                           requests, fetched, outcome, last_success, detected>>
            /\ LET r == Renamed(stored[1], stored[2], coordinator_data, sensors)
               IN  /\ heap' = r.heap
                   /\ entry_data_devices' = r.entry_data_devices
                   /\ coordinator_data' = r.coordinator_data
                   /\ sensors' = r.sensors
    /\ UNCHANGED <<clientVars, fnVars, flowVars, logVars, registered>>

\* -------------------------------------------------- descriptor harness ----
\* The raw values a telemetry field takes in the harness, by what the
\* descriptor of the key does with it.
ModeValues ==
    {JNull, JInt(0), JInt(1), JInt(2), JInt(3), JInt(4), JInt(5), JInt(99),
     JStr("2"), JStr("abc")}
RawValues(key) ==
    IF key \in ENERGY_KEYS THEN {JNull, JInt(-50), JInt(0), JInt(150), JInt(200)}
    ELSE IF key \in BINARY_KEYS
         THEN {JNull, JStr("ON"), JStr("1"), JStr("OFF"), JStr("0"), JStr("on"),
               JInt(1)}
    ELSE IF exists_field(key) \in {"operation_mode", "heating_mode"} THEN ModeValues
    ELSE {JNull, JInt(0), JInt(210)}

ConfigurationValues == {JAbsent, JNull, JStr("on"), JStr("off")}

\* The devices a descriptor is applied to: for a descriptor of realtime_info
\* the field it reads varies, for one of heatloading_status the payload does.
FnDevices(key) ==
    IF key \in HEATLOADING_KEYS
    THEN {[id |-> 1, realtime_info |-> NoRealtimeInfo, heatloading_status |-> hl] :
            hl \in {NoHeatLoadingStatus} \cup
                   {[t |-> "obj", heatloading_active |-> a, configurations |-> c] :
                       a \in {JNull, JStr("ON")},
                       c \in {NullConfigurations} \cup
                             {Configurations(x, y) : x, y \in ConfigurationValues}}}
    ELSE {[id |-> 1, realtime_info |-> rt, heatloading_status |-> NoHeatLoadingStatus] :
            rt \in {NoRealtimeInfo} \cup
                   {[t |-> "obj",
                     common |-> [f \in {exists_field(key)} |-> v]] :
                       v \in RawValues(key)}}

\* description.exists_fn(device) is called.
ApplyExists ==
    /\ fn_pc = "ready"
    /\ fn_exists' = exists_fn(fn_key, fn_device)
    /\ fn_pc' = "checked"
    /\ UNCHANGED <<fn_key, fn_device, fn_result, clientVars, cycleVars,
                 flowVars, logVars>>

\* description.value_fn(device) is called.
ApplyValue ==
    /\ fn_pc = "checked"
    /\ fn_result' = value_fn(fn_key, fn_device)
    /\ fn_pc' = "done"
    /\ UNCHANGED <<fn_key, fn_device, fn_exists, clientVars, cycleVars,
                 flowVars, logVars>>

\* -------------------------------------------------------- config flows ----
\* eplucon_client.BASE_URL, and another endpoint a user may enter.
BASE_URL == "https://portaal.eplucon.nl/api/v2"

\* user_input of a step: None (the form is only shown), or what was entered.
NoInput == [given |-> FALSE, api_token |-> "", api_endpoint |-> ""]
FlowInputs ==
    {[given |-> TRUE, api_token |-> t, api_endpoint |-> e] :
        t \in {"token-a", "token-b"},
        e \in {BASE_URL, "https://eplucon.example/api"}}

\* What the GET of the listing meets: no response at all (the session raises
\* aiohttp.ClientError), a refusal, or a listing.
ClientError == "ClientError"
NoTransport ==
    [status |-> -1, body |-> [auth |-> JAbsent, data |-> [t |-> "absent", items |-> <<>>]]]
ConnectionFailed ==
    [status |-> 0, body |-> [auth |-> JAbsent, data |-> [t |-> "absent", items |-> <<>>]]]
FlowTransports ==
    {ConnectionFailed} \cup Refused(ListingData) \cup
    {Envelope(200, [t |-> "list", items |-> q]) :
        q \in SeqsUpTo({e \in ListingEntries : e.extra = {}}, MaxListing)}

\* await client.get_devices() in a flow: the exception of the session, or
\* what get_devices makes of the response.
client_get_devices(transport) ==
    IF transport.status = 0 THEN Raise(ClientError, 0) ELSE get_devices(transport)

\* The data of a configuration entry; NoEntry when none is stored.
NoEntry == [exists |-> FALSE, api_token |-> "", api_endpoint |-> "", devices |-> <<>>]
EntryData(token, endpoint, devices) ==
    [exists |-> TRUE, api_token |-> token, api_endpoint |-> endpoint,
     devices |-> devices]

\* What a step gives back: the form with errors["base"], or the entry made.
ShowForm(base, entry) == [result |-> "form", errors |-> base, entry |-> entry]
CreateEntry(entry) == [result |-> "create_entry", errors |-> "none", entry |-> entry]

async_step_user_api_first(input, transport, entry) ==
    LET devices == client_get_devices(transport)
        supported_devices ==
            SelectSeq(devices.value, LAMBDA device : device.type \in SUPPORTED_TYPES)
    IN  IF ~input.given THEN ShowForm("none", entry)
        ELSE IF devices.exc \in {ApiError, ApiAuthError} THEN ShowForm("api", entry)
        ELSE IF devices.exc # NoError THEN ShowForm("unknown", entry)
        ELSE IF Len(supported_devices) > 0
             THEN CreateEntry(EntryData(input.api_token, input.api_endpoint,
                                        supported_devices))
        ELSE ShowForm("no-devices", entry)

\* EpluconConfigFlow.async_step_user: `entry` is what is stored before.
async_step_user(input, transport, entry) ==
    LET devices == client_get_devices(transport)
        supported_devices ==
            SelectSeq(devices.value, LAMBDA device : device.type \in SUPPORTED_TYPES)
    IN  IF ~input.given THEN ShowForm("none", entry)
        ELSE IF devices.exc = ApiAuthError THEN ShowForm("auth", entry)
        ELSE IF devices.exc = ApiError THEN ShowForm("api", entry)
        ELSE IF devices.exc # NoError THEN ShowForm("unknown", entry)
        ELSE IF Len(supported_devices) > 0
             THEN CreateEntry(EntryData(input.api_token, input.api_endpoint,
                                        supported_devices))
        ELSE ShowForm("no-devices", entry)

async_step_init_unfiltered(input, transport, entry) ==
    LET devices == client_get_devices(transport)
    IN  IF ~input.given THEN ShowForm("none", entry)
        ELSE IF devices.exc = ApiAuthError THEN ShowForm("auth", entry)
        ELSE IF devices.exc = ApiError THEN ShowForm("api", entry)
        ELSE IF devices.exc # NoError THEN ShowForm("unknown", entry)
        ELSE IF Len(devices.value) > 0
             THEN CreateEntry(EntryData(input.api_token, input.api_endpoint,
                                        devices.value))
        ELSE ShowForm("no-devices", entry)

async_step_init_update_first(input, transport, entry) ==
    LET devices == client_get_devices(transport)
        supported_devices ==
            SelectSeq(devices.value, LAMBDA device : device.type \in SUPPORTED_TYPES)
        updated == EntryData(input.api_token, input.api_endpoint, entry.devices)
    IN  IF ~input.given THEN ShowForm("none", entry)
        ELSE IF devices.exc = ApiAuthError THEN ShowForm("auth", updated)
        ELSE IF devices.exc = ApiError THEN ShowForm("api", updated)
        ELSE IF devices.exc # NoError THEN ShowForm("unknown", updated)
        ELSE IF Len(supported_devices) > 0
             THEN CreateEntry(EntryData(input.api_token, input.api_endpoint,
                                        supported_devices))
        ELSE ShowForm("no-devices", updated)

\* EpluconOptionsFlowHandler.async_step_init: `entry` is self.config_entry,
\* which async_update_entry replaces.
async_step_init(input, transport, entry) ==
    LET devices == client_get_devices(transport)
        supported_devices ==
            SelectSeq(devices.value, LAMBDA device : device.type \in SUPPORTED_TYPES)
    IN  IF ~input.given THEN ShowForm("none", entry)
        ELSE IF devices.exc = ApiAuthError THEN ShowForm("auth", entry)
        ELSE IF devices.exc = ApiError THEN ShowForm("api", entry)
        ELSE IF devices.exc # NoError THEN ShowForm("unknown", entry)
        ELSE IF Len(supported_devices) > 0
             THEN CreateEntry(EntryData(input.api_token, input.api_endpoint,
                                        supported_devices))
        ELSE ShowForm("no-devices", entry)

\* The step of a flow is called: `step` with its result.
FlowStep(name, input, transport, step) ==
    /\ flow_pc = "ready"
    /\ step_id' = name
    /\ user_input' = input
    /\ flow_response' = transport
    /\ errors' = step.errors
    /\ flow_result' = step.result
    /\ config_entry' = step.entry
    /\ flow_pc' = "done"
    /\ UNCHANGED <<clientVars, cycleVars, fnVars, logVars>>

\* The setup flow: the form is asked for, or submitted.
StepUser ==
    /\ ~config_entry.exists
    /\ \/ FlowStep("user", NoInput, NoTransport,
                   async_step_user(NoInput, NoTransport, config_entry))
       \/ \E input \in FlowInputs, transport \in FlowTransports :
            FlowStep("user", input, transport,
                     async_step_user(input, transport, config_entry))

\* The options flow of a stored entry: the form is asked for, or submitted.
StepInit ==
    /\ config_entry.exists
    /\ \/ FlowStep("init", NoInput, NoTransport,
                   async_step_init(NoInput, NoTransport, config_entry))
       \/ \E input \in FlowInputs, transport \in FlowTransports :
            FlowStep("init", input, transport,
                     async_step_init(input, transport, config_entry))

\* ------------------------------------------------------ request headers --
\* The longest token the header harness gives the client.
MaxToken == 14

\* The tokens: every string of two characters, up to that length.
ApiTokens == UNION {[1..n -> {"k", "z"}] : n \in 0..MaxToken}

\* A string as its characters.
Bearer == <<"B", "e", "a", "r", "e", "r", " ">>
Stars(n) == [k \in 1..n |-> "*"]
startswith(s, prefix) ==
    Len(s) >= Len(prefix) /\ SubSeq(s, 1, Len(prefix)) = prefix

\* self._headers as EpluconApi.__init__ sets it.
NoHeaders == [Accept |-> "", Cache_Control |-> "", Authorization |-> <<>>]
Headers(token) ==
    [Accept |-> "application/json", Cache_Control |-> "no-cache",
     Authorization |-> Bearer \o token]

sanitize_headers_in_place(hs) ==
    LET auth_value == hs.Authorization
        token == SubSeq(auth_value, 8, Len(auth_value))
        masked_token ==
            IF Len(token) > 12
            THEN SubSeq(token, 1, 8) \o Stars(Len(token) - 12)
                 \o SubSeq(token, Len(token) - 3, Len(token))
            ELSE Stars(Len(token))
        masked == IF startswith(auth_value, Bearer)
                  THEN [hs EXCEPT !.Authorization = Bearer \o masked_token]
                  ELSE hs
    IN  [headers |-> masked, sanitized |-> masked]

\* EpluconApi._sanitize_headers_for_logging: the dict it is given, as the
\* call leaves it, and the dict it returns.
sanitize_headers_for_logging(hs) ==
    LET auth_value == hs.Authorization
        token == SubSeq(auth_value, 8, Len(auth_value))
        masked_token ==
            IF Len(token) > 12
            THEN SubSeq(token, 1, 8) \o Stars(Len(token) - 12)
                 \o SubSeq(token, Len(token) - 3, Len(token))
            ELSE Stars(Len(token))
    IN  [headers |-> hs,
         sanitized |-> IF startswith(auth_value, Bearer)
                       THEN [hs EXCEPT !.Authorization = Bearer \o masked_token]
                       ELSE hs]

\* EpluconApi.__init__: the headers are set, and logged sanitized.
Construct ==
    /\ log_pc = "ready"
    /\ LET logged == sanitize_headers_for_logging(Headers(api_token))
       IN  /\ headers' = logged.headers
           /\ sanitized' = logged.sanitized
    /\ log_pc' = "built"
    /\ UNCHANGED <<api_token, clientVars, cycleVars, fnVars, flowVars>>

\* A method of the client logs its request headers sanitized, before the
\* GET that is sent with self._headers.
LogRequest ==
    /\ log_pc = "built"
    /\ LET logged == sanitize_headers_for_logging(headers)
       IN  /\ headers' = logged.headers
           /\ sanitized' = logged.sanitized
    /\ log_pc' = "logged"
    /\ UNCHANGED <<api_token, clientVars, cycleVars, fnVars, flowVars>>

\* ------------------------------------------------------- specifications ---
\* A tracked identity as the configuration entry holds it.
Identity(form, id, type) ==
    [cls |-> form, id |-> id, name |-> NameOf(id), type |-> type,
     account_module_index |-> IndexOf(id),
     realtime_info |-> None, heatloading_status |-> None]

CycleIdle ==
    /\ stage = "init"
    /\ coordinator_data = <<>>
    /\ last_update_success = TRUE
    /\ pc = "idle"
    /\ entry_devices = <<>>
    /\ i = 0
    /\ entry_device = None
    /\ new_device = None
    /\ final_devices = <<>>
    /\ sensors = NoSensors
    /\ last_value = NoSensors
    /\ requests = <<>>
    /\ fetched = <<>>
    /\ outcome = NoOutcome
    /\ last_success = <<>>
    /\ detected = {}
    /\ registered = register_devices(heap, entry_data_devices)

ClientOff ==
    /\ cl_pc = "off"
    /\ cl_op = "none"
    /\ cl_response = <<>>
    /\ cl_result = Return(<<>>)

\* A device with neither payload, as the identities of the entry are.
NoDevice ==
    [id |-> 0, realtime_info |-> NoRealtimeInfo,
     heatloading_status |-> NoHeatLoadingStatus]

FlowOff ==
    /\ flow_pc = "off"
    /\ step_id = "none"
    /\ user_input = NoInput
    /\ flow_response = NoTransport
    /\ errors = "none"
    /\ flow_result = "none"
    /\ config_entry = NoEntry

LogOff ==
    /\ log_pc = "off"
    /\ api_token = <<>>
    /\ headers = NoHeaders
    /\ sanitized = NoHeaders

FnOff ==
    /\ fn_pc = "off"
    /\ fn_key = "none"
    /\ fn_device = NoDevice
    /\ fn_exists = FALSE
    /\ fn_result = Return(JNull)

\* The entry as the config flow (DTOs) or a restart (dicts) left it: distinct
\* ids, of any type.
Init ==
    /\ cl_pc = "off"
    /\ cl_op = "none"
    /\ cl_response = <<>>
    /\ cl_result = Return(<<>>)
    /\ \E n \in 1..MaxDevices, form \in {"dict", "DeviceDTO"} :
        \E types \in [1..n -> DeviceTypes] :
            /\ entry_data_devices = [k \in 1..n |-> k]
            /\ heap = [a \in 1..n |-> Identity(form, a, types[a])]
    /\ CycleIdle
    /\ FnOff
    /\ FlowOff
    /\ LogOff

Next ==
    \/ StartCycle
    \/ SkipUnsupported
    \/ RequestRealtime
    \/ ReceiveRealtime
    \/ ReceiveHeatloading
    \/ FinishCycle
    \/ CancelCycle

Spec == Init /\ [][Next]_vars

InitClient ==
    /\ cl_pc = "ready"
    /\ cl_op = "none"
    /\ cl_response = <<>>
    /\ cl_result = Return(<<>>)
    /\ entry_data_devices = <<>>
    /\ heap = [a \in {} |-> None]
    /\ CycleIdle
    /\ FnOff
    /\ FlowOff
    /\ LogOff

NextClient ==
    \/ ClientValidate
    \/ ClientGetDevices
    \/ ClientGetRealtimeInfo
    \/ ClientGetHeatloading

SpecClient == InitClient /\ [][NextClient]_vars

InitDescriptors ==
    /\ ClientOff
    /\ entry_data_devices = <<>>
    /\ heap = [a \in {} |-> None]
    /\ CycleIdle
    /\ fn_pc = "ready"
    /\ fn_key \in SENSOR_KEYS
    /\ fn_device \in FnDevices(fn_key)
    /\ fn_exists = FALSE
    /\ fn_result = Return(JNull)
    /\ FlowOff
    /\ LogOff

NextDescriptors ==
    \/ ApplyExists
    \/ ApplyValue

SpecDescriptors == InitDescriptors /\ [][NextDescriptors]_vars

\* The entry as the config flow leaves it: supported devices, as DTOs.
InitSensors ==
    /\ ClientOff
    /\ \E n \in 1..MaxDevices :
        /\ entry_data_devices = [k \in 1..n |-> k]
        /\ heap = [a \in 1..n |-> Identity("DeviceDTO", a, "heat_pump")]
    /\ CycleIdle
    /\ FnOff
    /\ FlowOff
    /\ LogOff

NextSensors ==
    \/ Refresh
    \/ OptionsUpdate

SpecSensors == InitSensors /\ [][NextSensors]_vars

\* A flow begins: no entry is stored (setup flow), or one that a setup flow
\* left is (options flow).
InitFlow ==
    /\ ClientOff
    /\ entry_data_devices = <<>>
    /\ heap = [a \in {} |-> None]
    /\ CycleIdle
    /\ FnOff
    /\ LogOff
    /\ flow_pc = "ready"
    /\ step_id = "none"
    /\ user_input = NoInput
    /\ flow_response = NoTransport
    /\ errors = "none"
    /\ flow_result = "none"
    /\ config_entry \in
         {NoEntry} \cup
           {EntryData("token-a", BASE_URL, MapSeq(q)) :
               q \in {<<[id |-> 1, name |-> NameOf(1), type |-> "heat_pump",
                         account_module_index |-> IndexOf(1), extra |-> {}]>>,
                      <<[id |-> 2, name |-> NameOf(2), type |-> "heat_pump",
                         account_module_index |-> IndexOf(2), extra |-> {}],
                        [id |-> 1, name |-> NameOf(1), type |-> "heat_pump",
                         account_module_index |-> IndexOf(1), extra |-> {}]>>}}

NextFlow ==
    \/ StepUser
    \/ StepInit

SpecFlow == InitFlow /\ [][NextFlow]_vars

\* A client is about to be constructed with a token.
InitHeaders ==
    /\ ClientOff
    /\ entry_data_devices = <<>>
    /\ heap = [a \in {} |-> None]
    /\ CycleIdle
    /\ FnOff
    /\ FlowOff
    /\ log_pc = "ready"
    /\ api_token \in ApiTokens
    /\ headers = NoHeaders
    /\ sanitized = NoHeaders

NextHeaders ==
    \/ Construct
    \/ LogRequest

SpecHeaders == InitHeaders /\ [][NextHeaders]_vars

\* The client methods are tried on responses, or the cycles run.
SpecDecode == (InitClient \/ Init) /\ [][NextClient \/ Next]_vars

\* ================================================================ claims ==
\* The JSON values Python takes for false.
FalsyAuth == {JNull, JBool(FALSE), JInt(0), JStr("")}

\* C1: validate_response raises ApiAuthError exactly when 'auth' is present
\* and falsy, ApiError exactly when 'auth' is absent, and returns otherwise.
C1_ValidateResponse ==
    cl_op = "validate_response" =>
        LET a == cl_response.body.auth
            e == cl_result.exc
        IN  /\ (e = ApiAuthError) <=> (a # JAbsent /\ a \in FalsyAuth)
            /\ (e = ApiError) <=> (a = JAbsent)
            /\ (e = NoError) <=> (a # JAbsent /\ a \notin FalsyAuth)

C1_Witness ==
    /\ cl_op = "validate_response"
    /\ cl_response.body.auth = JInt(0)
    /\ cl_result.exc = ApiAuthError

\* C2: each of the three client methods answers a status other than 200 with
\* ApiError carrying that status, whatever the envelope says.
C2_StatusBeforeEnvelope ==
    (/\ cl_op \in {"get_devices", "get_realtime_info",
                    "get_heatpump_heatloading_status"}
     /\ cl_response.status # 200)
    => (cl_result.exc = ApiError /\ cl_result.status = cl_response.status)

C2_Witness ==
    /\ cl_op = "get_realtime_info"
    /\ cl_response.status = 503
    /\ cl_response.body.auth = JBool(FALSE)
    /\ cl_result.exc = ApiError
    /\ cl_result.status = 503

C4_FailureFailsCycle ==
    \A k \in 1..Len(requests) :
        (requests[k].state = "failed" /\ requests[k].exc \in {ApiAuthError, ApiError})
        => /\ k = Len(requests)
           /\ pc = "idle"
           /\ outcome.kind = "failed"
           /\ outcome.exc = requests[k].exc
           /\ outcome.status = requests[k].status
           /\ ~outcome.has_list

C4_Witness ==
    /\ Len(requests) = 3
    /\ requests[1].state = "ok"
    /\ requests[2].state = "ok"
    /\ requests[3].state = "failed"
    /\ requests[3].exc = ApiError
    /\ requests[3].status = 503
    /\ outcome.kind = "failed"

\* C5: whatever cycles succeeded, failed or were cancelled, the published
\* list says what the last successful cycle returned, and a sensor whose id
\* is in it holds the published snapshot of that id.
C5_AtomicPublish ==
    /\ SnapshotsOf(heap, coordinator_data) = last_success
    /\ \A sk \in DOMAIN sensors :
        (\E a \in Range(coordinator_data) : heap[a].id = sk[1])
        => (sensors[sk] \in Range(coordinator_data) /\ heap[sensors[sk]].id = sk[1])

C5_Witness ==
    /\ stage = "sensors"
    /\ pc = "idle"
    /\ outcome.kind = "failed"
    /\ Len(requests) = 3
    /\ Len(coordinator_data) = 2
    /\ DOMAIN sensors # {}

TrackedSupported(id) ==
    \A a \in Range(entry_data_devices) :
        heap[a].id = id => heap[a].type \in SUPPORTED_TYPES

\* C6: no request is issued for a tracked identity of an unsupported type, and
\* the step that meets one moves on to the next identity: the cycle goes on.
C6_NoFetchForUnsupported ==
    [][/\ \A k \in 1..Len(requests') : TrackedSupported(requests'[k].id)
       /\ (/\ pc = "loop"
           /\ i <= Len(entry_devices)
           /\ heap[entry_devices[i]].type \notin SUPPORTED_TYPES)
          => (/\ pc' = "loop"
              /\ i' = i + 1
              /\ requests' = requests
              /\ final_devices' = final_devices
              /\ outcome' = outcome)]_vars

C6_Witness ==
    /\ pc = "realtime"
    /\ i = 2
    /\ 1 \in detected
    /\ Len(requests) = 1
    /\ requests[1].id = 2

\* The payloads the cycle received for an id.
FetchedFor(id) == CHOOSE f \in Range(fetched) : f.id = id

\* C7: the list a cycle is about to return has one snapshot for each tracked
\* identity of a supported type, in the order of the tracked list, with that
\* identity's fields and the payloads received for its id in this cycle.
C7_ResultList ==
    (pc = "loop" /\ i > Len(entry_devices)) =>
        LET sup == SelectSeq(entry_data_devices,
                             LAMBDA a : heap[a].type \in SUPPORTED_TYPES)
            got == SnapshotsOf(heap, final_devices)
        IN  /\ Len(got) = Len(sup)
            /\ \A k \in 1..Len(sup) :
                /\ got[k].id = heap[sup[k]].id
                /\ got[k].name = heap[sup[k]].name
                /\ got[k].type = heap[sup[k]].type
                /\ got[k].account_module_index = heap[sup[k]].account_module_index
                /\ \E f \in Range(fetched) : f.id = got[k].id
                /\ got[k].common = FetchedFor(got[k].id).common
                /\ got[k].heatpump = FetchedFor(got[k].id).heatpump
                /\ got[k].hl = FetchedFor(got[k].id).hl

C7_Witness ==
    /\ pc = "loop"
    /\ i > Len(entry_devices)
    /\ Len(final_devices) = 2
    /\ SnapshotOf(heap, final_devices[1]).common
           # SnapshotOf(heap, final_devices[2]).common
    /\ SnapshotOf(heap, final_devices[1]).hl # SnapshotOf(heap, final_devices[2]).hl

\* The tracked list of the scenario: id 1 supported, then id 2 unsupported.
Scenario ==
    /\ Len(entry_data_devices) = 2
    /\ heap[entry_data_devices[1]].id = 1
    /\ heap[entry_data_devices[1]].type \in SUPPORTED_TYPES
    /\ heap[entry_data_devices[2]].id = 2
    /\ heap[entry_data_devices[2]].type \notin SUPPORTED_TYPES

\* C8: with that tracked list every successful cycle returns one snapshot,
\* the one of id 1.
C8_ScenarioOneSnapshot ==
    (Scenario /\ stage # "init") =>
        /\ Len(last_success) = 1
        /\ last_success[1].id = 1
        /\ Len(coordinator_data) = 1
        /\ heap[coordinator_data[1]].id = 1

C8_Witness ==
    /\ Scenario
    /\ stage = "sensors"
    /\ outcome.kind = "success"
    /\ last_update_success
    /\ 2 \in detected

IdsOf(h, list) == [k \in 1..Len(list) |-> h[list[k]].id]

\* C9, as the specification states it: the list a cycle iterates holds no
\* identity that an earlier cycle found unsupported.
C9_DroppedForGood ==
    (pc # "idle" /\ i = 1) =>
        \A k \in 1..Len(entry_devices) : heap[entry_devices[k]].id \notin detected

\* C9, amended: a cycle changes neither the tracked list nor its identities,
\* and the list it iterates is a copy of the whole tracked list, the
\* identities found unsupported before included.
C9_SkippedEachCycle ==
    [][(pc # "idle" \/ pc' # "idle") =>
        /\ entry_data_devices' = entry_data_devices
        /\ \A a \in Range(entry_data_devices) :
            a \in DOMAIN heap' /\ heap'[a] = heap[a]
        /\ pc' # "idle" =>
            IdsOf(heap', entry_devices') = IdsOf(heap', entry_data_devices')]_vars

C9_Witness ==
    /\ pc = "loop"
    /\ i <= Len(entry_devices)
    /\ heap[entry_devices[i]].id \in detected
    /\ heap[entry_devices[i]].type \notin SUPPORTED_TYPES
    /\ stage # "init"

\* The snapshot objects of a state: published, returned so far, in the making.
Snapshots ==
    Range(coordinator_data) \cup Range(final_devices) \cup ({new_device} \ {None})

Injective(list) ==
    \A m, k \in 1..Len(list) : list[m] = list[k] => m = k

\* No object is two snapshots, or a snapshot and an identity, and no two
\* snapshots refer to the same payload object.
NoSharing ==
    /\ Injective(coordinator_data)
    /\ Injective(final_devices)
    /\ Range(final_devices) \cap Range(coordinator_data) = {}
    /\ new_device \notin Range(coordinator_data)
    /\ Snapshots \cap (Range(entry_data_devices) \cup Range(entry_devices)) = {}
    /\ \A a, b \in Snapshots :
        a # b =>
            /\ heap[a].realtime_info # None
                   => heap[a].realtime_info # heap[b].realtime_info
            /\ heap[a].heatloading_status # None
                   => heap[a].heatloading_status # heap[b].heatloading_status

\* An object and the payload objects it refers to stay as they are.
Untouched(a) ==
    a \in DOMAIN heap' =>
        /\ heap'[a] = heap[a]
        /\ heap[a].realtime_info # None =>
               heap'[heap[a].realtime_info] = heap[heap[a].realtime_info]
        /\ heap[a].heatloading_status # None =>
               heap'[heap[a].heatloading_status] = heap[heap[a].heatloading_status]

\* C10: every snapshot is an object of its own, and no step changes a
\* published snapshot, a tracked identity or a payload they refer to.
C10_FreshSnapshots ==
    [][/\ NoSharing'
       /\ \A a \in Range(coordinator_data) \cup Range(entry_data_devices) :
            Untouched(a)]_vars

C10_Witness ==
    /\ pc = "heatloading"
    /\ PublishedWithId(heap[new_device].id) # None
    /\ SnapshotOf(heap, PublishedWithId(heap[new_device].id)).common
           # heap[heap[new_device].realtime_info].common

\* The raw input of the field a descriptor is named after.
OwnRaw(key, device) ==
    CASE key = "heatloading_active" -> device.heatloading_status.heatloading_active
      [] key \in {"domestic_hot_water", "heatloading_for_heating"} ->
             device.heatloading_status.configurations.d[key]
      [] OTHER -> common_field(device.realtime_info.common, exists_field(key))

\* The harness has applied value_fn to a device that has a realtime payload.
AppliedToRealtime(keys) ==
    /\ fn_pc = "done"
    /\ fn_key \in keys
    /\ fn_device.realtime_info.t = "obj"

\* C13: for export_energy and import_energy the value is raw/100 when the
\* raw value is strictly greater than zero and the raw value itself
\* otherwise: 150 gives 1.5, 200 gives 2.0, 0 gives 0 and -50 gives -50.
C13_EnergyScaling ==
    LET raw == OwnRaw(fn_key, fn_device)
    IN  (AppliedToRealtime({"export_energy", "import_energy"}) /\ raw.t = "int") =>
            /\ fn_result.exc = NoError
            /\ IF raw.n > 0
               THEN /\ fn_result.value.t = "float"
                    /\ 100 * Hundredths(fn_result.value) = Hundredths(raw)
               ELSE fn_result.value = raw
            /\ raw = JInt(150) => fn_result.value = JFloat(150)
            /\ raw = JInt(200) => fn_result.value = JFloat(200)
            /\ raw = JInt(0) => fn_result.value = JInt(0)
            /\ raw = JInt(-50) => fn_result.value = JInt(-50)

C13_Witness ==
    /\ AppliedToRealtime({"import_energy"})
    /\ OwnRaw(fn_key, fn_device) = JInt(150)
    /\ fn_result.value = JFloat(150)

\* C14: for each of the nine binary-coded descriptors the value is the on
\* state exactly when the raw value is the string "ON" or the string "1",
\* and the off state for every other raw value.
C14_BinaryNormalization ==
    AppliedToRealtime({"active_requests_ww", "dg1", "sg2", "sg3", "sg4",
                       "warmwater", "alarm_active", "current_heating_pump_state",
                       "current_heating_state"}) =>
        /\ fn_result.exc = NoError
        /\ fn_result.value \in {JStr("ON"), JStr("OFF")}
        /\ fn_result.value = JStr("ON") <=>
               OwnRaw(fn_key, fn_device) \in {JStr("ON"), JStr("1")}

C14_Witness ==
    /\ AppliedToRealtime({"sg4"})
    /\ OwnRaw(fn_key, fn_device) = JStr("1")
    /\ fn_result.value = JStr("ON")

\* A mode code that int() converts: an integer, or a string of digits.
NumericInput(raw) == raw.t = "int" \/ (raw.t = "str" /\ raw.s \in NumericStrings)
CodeOf(raw) == IF raw.t = "int" THEN raw.n ELSE int_of_str(raw.s)

\* C15 as the specification states it: the operation-mode lookup returns
\* "Cooling", "Heating", "Auto-thermostat", "Auto heat-pump", "Fireplace" for
\* 1..5, "Unknown operation mode" for every other integer code and
\* "Unavailable" for a missing or non-numeric input.
C15_EnglishTexts ==
    LET raw == OwnRaw(fn_key, fn_device)
    IN  AppliedToRealtime({"operation_mode_text"}) =>
            /\ fn_result.exc = NoError
            /\ fn_result.value =
                   IF NumericInput(raw)
                   THEN JStr(operation_mode_text_english(CodeOf(raw)))
                   ELSE JStr("Unavailable")

\* C15, amended: the operation-mode lookup returns the Dutch texts "Koeling",
\* "Verwarming", "Auto th-TOUCH", "Auto Wp", "Haard" for 1..5, "Unknown
\* operation mode" for every other integer code and "Unavailable" for a
\* missing or non-numeric input.
C15_DutchTexts ==
    LET raw == OwnRaw(fn_key, fn_device)
    IN  AppliedToRealtime({"operation_mode_text"}) =>
            /\ fn_result.exc = NoError
            /\ raw = JInt(1) => fn_result.value = JStr("Koeling")
            /\ raw = JInt(2) => fn_result.value = JStr("Verwarming")
            /\ raw = JInt(3) => fn_result.value = JStr("Auto th-TOUCH")
            /\ raw = JInt(4) => fn_result.value = JStr("Auto Wp")
            /\ raw = JInt(5) => fn_result.value = JStr("Haard")
            /\ (NumericInput(raw) /\ CodeOf(raw) \notin 1..5) =>
                   fn_result.value = JStr("Unknown operation mode")
            /\ ~NumericInput(raw) => fn_result.value = JStr("Unavailable")

C15_Witness ==
    /\ AppliedToRealtime({"operation_mode_text"})
    /\ OwnRaw(fn_key, fn_device) = JInt(2)
    /\ fn_result.value = JStr("Verwarming")

\* C16: the heating-mode lookup returns "Off" for 0, "On" for 1, "Emergency
\* operation" for 2, "APX" for 3, "Unknown heating mode" for every other
\* integer code and "Unavailable" for a missing or non-numeric input; code 0
\* is "Off", not a missing input.
C16_HeatingModeTexts ==
    LET raw == OwnRaw(fn_key, fn_device)
    IN  AppliedToRealtime({"heating_mode_text"}) =>
            /\ fn_result.exc = NoError
            /\ raw = JInt(0) => fn_result.value = JStr("Off")
            /\ raw = JInt(1) => fn_result.value = JStr("On")
            /\ raw = JInt(2) => fn_result.value = JStr("Emergency operation")
            /\ raw = JInt(3) => fn_result.value = JStr("APX")
            /\ (NumericInput(raw) /\ CodeOf(raw) \notin 0..3) =>
                   fn_result.value = JStr("Unknown heating mode")
            /\ ~NumericInput(raw) => fn_result.value = JStr("Unavailable")

C16_Witness ==
    /\ AppliedToRealtime({"heating_mode_text"})
    /\ OwnRaw(fn_key, fn_device) = JInt(0)
    /\ fn_exists
    /\ fn_result.value = JStr("Off")

\* The documented transform of a descriptor, applied to a raw input.
Transformed(key, raw) ==
    CASE key \in ENERGY_KEYS -> scale(raw)
      [] key \in BINARY_KEYS -> Return(normalize(raw))
      [] key = "operation_mode_text" ->
             Return(JStr(IF NumericInput(raw) THEN operation_mode_text(CodeOf(raw))
                         ELSE "Unavailable"))
      [] key = "heating_mode_text" ->
             Return(JStr(IF NumericInput(raw) THEN heating_mode_text(CodeOf(raw))
                         ELSE "Unavailable"))
      [] OTHER -> Return(raw)

\* C17: round trip: whenever the exists predicate of a descriptor is true of
\* a snapshot, its value is the raw input of the field the descriptor is
\* named after, up to the documented transforms; heatloading_for_heating
\* reads configurations["heatloading_for_heating"].
C17_RoundTrip ==
    (fn_pc = "done" /\ fn_exists) =>
        /\ fn_result.exc = NoError
        /\ fn_result.value = Transformed(fn_key, OwnRaw(fn_key, fn_device)).value

\* C18: whenever the exists predicate of a descriptor is true of a snapshot,
\* its value function completes on that snapshot without raising.
C18_ExistsGuardsValue ==
    (fn_pc = "done" /\ fn_exists) => fn_result.exc = NoError

\* The ids of the devices of a list.
IdsIn(h, list) == {h[list[k]].id : k \in 1..Len(list)}

\* The first device of a list that has the id.
FirstWithId(h, list, id) ==
    list[CHOOSE k \in 1..Len(list) :
             h[list[k]].id = id /\ \A m \in 1..(k - 1) : h[list[m]].id # id]

\* The sensors exist and the last refresh succeeded.
AfterSuccess == stage = "sensors" /\ outcome.kind = "success"

\* C11: after the reconciliation that follows a successful cycle, every
\* sensor whose device id occurs in the new list holds the new-list snapshot
\* with that id, whatever its position, whole, and the value it reports is
\* the value of its descriptor on that snapshot.
C11_Reconciled ==
    AfterSuccess =>
        \A sk \in DOMAIN sensors :
            (sk[1] \in IdsIn(heap, coordinator_data) /\ last_value[sk] # Unset) =>
                LET new == FirstWithId(heap, coordinator_data, sk[1])
                    new_value == value_fn(sk[2], DeviceView(heap, new))
                IN  /\ sensors[sk] = new
                    /\ \E k \in 1..Len(last_success) :
                           /\ last_success[k].id = sk[1]
                           /\ SnapshotOf(heap, sensors[sk]) = last_success[k]
                    /\ new_value.exc = NoError =>
                           last_value[sk].value = new_value.value

\* Device 2, second in the list at creation and first now, reported 21.0
\* and reports 21.5.
C11_Witness ==
    /\ AfterSuccess
    /\ <<2, "dg1">> \in DOMAIN sensors
    /\ <<2, "indoor_temperature">> \in DOMAIN sensors
    /\ Len(coordinator_data) >= 1
    /\ heap[coordinator_data[1]].id = 2
    /\ sensors[<<2, "indoor_temperature">>] = coordinator_data[1]
    /\ last_value[<<2, "indoor_temperature">>] = Return(JInt(215))

\* C12: when the list of a successful cycle has no snapshot with the device
\* id of a sensor, the sensor stays, the snapshot it holds is left as it
\* was, and the value it reports is the stale one of that snapshot.
C12_DroppedDeviceKept ==
    [][\A sk \in DOMAIN sensors :
          (outcome'.kind = "success" /\ sk[1] \notin IdsIn(heap', coordinator_data')) =>
              /\ sk \in DOMAIN sensors'
              /\ DeviceView(heap', sensors'[sk]) = DeviceView(heap, sensors[sk])
              /\ last_value'[sk] = native_value(sk[2], DeviceView(heap, sensors[sk]))
      ]_vars

C12_Witness ==
    /\ AfterSuccess
    /\ \E sk \in DOMAIN sensors :
        /\ sk[1] \notin IdsIn(heap, coordinator_data)
        /\ sensors[sk] \notin Range(coordinator_data)
        /\ last_value[sk] # Unset
        /\ last_value[sk].value # JNull

\* C19: a value function is invoked on a snapshot only when the exists
\* predicate of its descriptor is true of that snapshot: every sensor that
\* has read its value holds a snapshot of which exists_fn is true, also in
\* the cycles after its creation.
C19_ValueGuardedByExists ==
    \A sk \in DOMAIN sensors :
        last_value[sk] # Unset => exists_fn(sk[2], DeviceView(heap, sensors[sk]))

\* C20: when computing the value of a sensor raises, that sensor reports no
\* value and nothing else is affected: the exception stays inside the
\* sensor, every other sensor reports its value in the same pass, and the
\* refresh is not failed by it.
C20_ValueErrorContained ==
    /\ AfterSuccess => last_update_success
    /\ \A sk \in DOMAIN sensors :
           last_value[sk] # Unset =>
               LET value == value_fn(sk[2], DeviceView(heap, sensors[sk]))
               IN  /\ last_value[sk].exc = NoError
                   /\ value.exc # NoError => last_value[sk].value = JNull
                   /\ value.exc = NoError => last_value[sk].value = value.value

\* The value of export_energy raises on device 1; its temperature and the
\* export_energy of device 2 are reported in the same pass.
C20_Witness ==
    /\ AfterSuccess
    /\ last_update_success
    /\ {<<1, "export_energy">>, <<1, "indoor_temperature">>, <<2, "export_energy">>}
           \subseteq DOMAIN sensors
    /\ Range(sensors) \subseteq Range(coordinator_data)
    /\ value_fn("export_energy", DeviceView(heap, sensors[<<1, "export_energy">>])).exc
           = TypeError
    /\ last_value[<<1, "export_energy">>] = Return(JNull)
    /\ last_value[<<1, "indoor_temperature">>] = Return(JInt(215))
    /\ last_value[<<2, "export_energy">>] = Return(JFloat(150))

\* --------------------------------------------------------- device info ----
device_info_by_name(h, a) ==
    [manufacturer |-> MANUFACTURER, identifiers |-> {<<EPLUCON_DOMAIN, h[a].name>>}]

\* EpluconSensorEntity.device_info, of a sensor that holds the device at a.
device_info(h, a) ==
    [manufacturer |-> MANUFACTURER,
     identifiers |-> {<<EPLUCON_DOMAIN, h[a].account_module_index>>}]

\* -------------------------------------------------------- availability ----
available_always(sk) == TRUE

\* EpluconSensorEntity.available: the available of CoordinatorEntity, which
\* is coordinator.last_update_success, and coordinator.last_update_success.
available(sk) == last_update_success /\ last_update_success

\* A cycle completes in this step, with a result of this kind.
Completes(kind) == pc # "idle" /\ pc' = "idle" /\ outcome'.kind = kind

\* C21: a step that completes a cycle with a failure leaves every sensor
\* unavailable, one that completes a cycle with success leaves every sensor
\* available, and no other step (a cycle starting, running or cancelled)
\* changes the availability of a sensor.
C21_AvailabilityFollowsCycle ==
    [][/\ Completes("failed") => \A sk \in DOMAIN sensors' : ~available(sk)'
       /\ Completes("success") => \A sk \in DOMAIN sensors' : available(sk)'
       /\ ~(Completes("failed") \/ Completes("success"))
          => /\ sensors' = sensors
             /\ \A sk \in DOMAIN sensors : available(sk)' = available(sk)]_vars

C21_Witness ==
    /\ stage = "sensors"
    /\ DOMAIN sensors # {}
    /\ pc = "realtime"
    /\ outcome = NoOutcome
    /\ \A sk \in DOMAIN sensors : ~available(sk)

\* The exception the listing of the step ended with.
ListingExc == client_get_devices(flow_response).exc

\* A step of a flow was given input and has answered.
Submitted == flow_pc = "done" /\ user_input.given

\* C22: in the setup flow and in the options flow, a listing that fails with
\* ApiAuthError shows the form with the error "auth" and one that fails with
\* ApiError shows it with "api"; "auth" is reported for no other failure.
C22_AuthDistinguished ==
    Submitted =>
        /\ ListingExc = ApiAuthError => (flow_result = "form" /\ errors = "auth")
        /\ ListingExc = ApiError => (flow_result = "form" /\ errors = "api")
        /\ errors = "auth" => ListingExc = ApiAuthError
        /\ errors = "api" => ListingExc = ApiError

C22_Witness ==
    /\ Submitted
    /\ step_id = "init"
    /\ flow_response.status = 200
    /\ flow_response.body.auth = JBool(FALSE)
    /\ errors = "auth"

\* The client harness was given a response with status 200 and a true
\* 'auth' by this method.
Accepted(op) ==
    /\ cl_pc = "done"
    /\ cl_op = op
    /\ cl_response.status = 200
    /\ cl_response.body.auth # JAbsent
    /\ cl_response.body.auth \notin FalsyAuth

\* A realtime response lacks 'data', 'common' or 'heatpump'.
RealtimeIncomplete ==
    /\ Accepted("get_realtime_info")
    /\ \/ cl_response.body.data.t = "absent"
       \/ cl_response.body.data.common.t = "absent"
       \/ cl_response.body.data.heatpump.t = "absent"

\* A heat-loading payload or a listing entry has a field its record does
\* not declare.
UndeclaredField ==
    \/ /\ Accepted("get_heatpump_heatloading_status")
       /\ cl_response.body.data.t = "obj"
       /\ cl_response.body.data.extra # {}
    \/ /\ Accepted("get_devices")
       /\ cl_response.body.data.t = "list"
       /\ \E k \in 1..Len(cl_response.body.data.items) :
            cl_response.body.data.items[k].extra # {}

\* The exceptions of the decode kind: what reading or unpacking 'data' raises.
DecodeErrors == {KeyError, TypeError}

\* A request of a cycle that failed with a decode error is its last, and the
\* cycle ends raising that error and returning no list.
DecodeErrorFatal ==
    \A k \in 1..Len(requests) :
        (requests[k].state = "failed" /\ requests[k].exc \in DecodeErrors)
        => /\ k = Len(requests)
           /\ pc = "idle"
           /\ outcome.kind = "failed"
           /\ outcome.exc = requests[k].exc
           /\ ~outcome.has_list

SupportedIds ==
    LET supported ==
            SelectSeq(entry_data_devices, LAMBDA a : heap[a].type \in SUPPORTED_TYPES)
    IN  [k \in 1..Len(supported) |-> heap[supported[k]].id]

\* The k-th request of a cycle in which every supported device is fetched.
ExpectedOp(k) ==
    IF k % 2 = 1 THEN "get_realtime_info" ELSE "get_heatpump_heatloading_status"
ExpectedId(k) == SupportedIds[(k + 1) \div 2]

\* C24: the requests of a cycle are, in order, the realtime and then the
\* heat-loading request of each supported tracked device in list order; a
\* request is issued only when every earlier one has been answered, so at
\* most one is outstanding; a successful cycle has issued all of them, two
\* per supported device.
C24_SequentialRequests ==
    /\ Len(requests) <= 2 * Len(SupportedIds)
    /\ \A k \in 1..Len(requests) :
        /\ requests[k].op = ExpectedOp(k)
        /\ requests[k].id = ExpectedId(k)
        /\ k < Len(requests) => requests[k].state = "ok"
    /\ Cardinality({k \in 1..Len(requests) : requests[k].state = "pending"}) <= 1
    /\ (pc = "idle" /\ outcome.kind = "success")
       => /\ Len(requests) = 2 * Len(SupportedIds)
          /\ \A k \in 1..Len(requests) : requests[k].state = "ok"

C24_Witness ==
    /\ pc = "idle"
    /\ outcome.kind = "success"
    /\ Len(requests) = 4
    /\ requests[2].id = 1
    /\ requests[3].id = 2
    /\ Len(entry_data_devices) = 2

\* A request of the history has failed.
SomeFailed(reqs) == \E k \in 1..Len(reqs) : reqs[k].state = "failed"

\* C25: a request that failed is the last one of its cycle and was issued
\* once; after it no request is issued until a new cycle starts: the only
\* step that changes the request history then is the start of the next cycle.
C25_NoRetryAfterFailure ==
    [][/\ \A k \in 1..Len(requests') :
            /\ requests'[k].state = "failed" => k = Len(requests')
            /\ \A j \in 1..Len(requests') :
                 (requests'[j].op = requests'[k].op /\ requests'[j].id = requests'[k].id)
                 => j = k
       /\ SomeFailed(requests)
          => \/ requests' = requests
             \/ (pc = "idle" /\ pc' = "loop" /\ requests' = <<>>)]_vars

C25_Witness ==
    /\ pc = "idle"
    /\ Len(entry_data_devices) = 2
    /\ Len(SupportedIds) = 2
    /\ Len(requests) = 2
    /\ requests[2].op = "get_heatpump_heatloading_status"
    /\ requests[2].state = "failed"
    /\ outcome.kind = "failed"

\* C26: whatever cycles and options updates have happened, the identifiers a
\* sensor reports are (domain, account_module_index) of the device with the
\* sensor's id, not its id or name, and they are the identifiers of the
\* device of that name that setup registered.
C26_RegistryIdentity ==
    \A sk \in DOMAIN sensors :
        LET info == device_info(heap, sensors[sk])
        IN  /\ info.identifiers = {<<EPLUCON_DOMAIN, IndexOf(sk[1])>>}
            /\ \E k \in 1..Len(registered) :
                 /\ registered[k].identifiers = info.identifiers
                 /\ registered[k].name = NameOf(sk[1])

C26_Witness ==
    /\ stage = "sensors"
    /\ Len(registered) = 2
    /\ \E sk \in DOMAIN sensors : sk[1] = 2
    /\ Len(entry_data_devices) = 1
    /\ heap[entry_data_devices[1]].id = 1
    /\ Len(coordinator_data) = 1
    /\ outcome.kind = "success"

\* The (device id, descriptor) pairs whose exists predicate holds of a
\* snapshot of the list.
Existing(h, data) ==
    {sk \in (1..MaxDevices) \X SENSOR_KEYS :
        \E k \in 1..Len(data) :
            h[data[k]].id = sk[1] /\ exists_fn(sk[2], DeviceView(h, data[k]))}

\* C27: the step that sets the sensor platform up creates a sensor for
\* exactly the (device, descriptor) pairs whose exists predicate holds of the
\* list published then; no later step, cycle or options update, adds or
\* removes a sensor.
C27_SensorsFixedAtSetup ==
    [][/\ (stage = "loaded" /\ stage' = "sensors")
          => DOMAIN sensors' = Existing(heap', coordinator_data')
       /\ stage = "sensors" => DOMAIN sensors' = DOMAIN sensors]_vars

\* Device 1 reports dg1 now and has no sensor for it, and device 2, which
\* is reported no more, keeps its sensors.
C27_Witness ==
    /\ stage = "sensors"
    /\ outcome.kind = "success"
    /\ <<1, "dg1">> \in Existing(heap, coordinator_data)
    /\ <<1, "dg1">> \notin DOMAIN sensors
    /\ <<2, "indoor_temperature">> \in DOMAIN sensors
    /\ <<2, "indoor_temperature">> \notin Existing(heap, coordinator_data)

\* The entries of the listing the step was answered with, and those of a
\* supported type, in listing order.
ListedItems ==
    IF flow_response.body.data.t = "list" THEN flow_response.body.data.items
    ELSE <<>>
SupportedListed ==
    SelectSeq(ListedItems, LAMBDA e : e.type \in SUPPORTED_TYPES)

\* The devices are the identities of the entries, in order.
SameIdentities(devices, items) ==
    /\ Len(devices) = Len(items)
    /\ \A k \in 1..Len(items) :
        /\ devices[k].id = items[k].id
        /\ devices[k].name = items[k].name
        /\ devices[k].type = items[k].type
        /\ devices[k].account_module_index = items[k].account_module_index

\* C28: a step of the setup or options flow whose listing succeeded stores
\* exactly the listed devices of a supported type, in listing order, when
\* there is one, and otherwise shows the form with "no-devices" and leaves
\* what is stored as it was; an entry is created or updated by no other step.
C28_SupportedPersisted ==
    [][(flow_pc' = "done" /\ user_input'.given)
       => /\ ListingExc' = NoError
             => IF Len(SupportedListed') > 0
                THEN /\ flow_result' = "create_entry"
                     /\ config_entry'.exists
                     /\ SameIdentities(config_entry'.devices, SupportedListed')
                ELSE /\ flow_result' = "form"
                     /\ errors' = "no-devices"
                     /\ config_entry' = config_entry
          /\ (flow_result' = "create_entry" \/ config_entry' # config_entry)
             => (ListingExc' = NoError /\ Len(SupportedListed') > 0)]_vars

C28_Witness ==
    /\ Submitted
    /\ step_id = "init"
    /\ flow_result = "create_entry"
    /\ Len(ListedItems) = 2
    /\ ListedItems[1].type = "boiler"
    /\ ListedItems[2].id = 2
    /\ Len(config_entry.devices) = 1
    /\ config_entry.devices[1].id = 2

\* C29: a submitted step of the options flow that does not find a supported
\* device, because the listing failed in any way or listed none, leaves the
\* stored entry as it was and shows the form with an error; one that finds
\* some replaces token, endpoint and devices of the entry together.
C29_OptionsFrame ==
    [][(flow_pc' = "done" /\ step_id' = "init" /\ user_input'.given)
       => IF ListingExc' = NoError /\ Len(SupportedListed') > 0
          THEN /\ config_entry'.exists
               /\ config_entry'.api_token = user_input'.api_token
               /\ config_entry'.api_endpoint = user_input'.api_endpoint
               /\ SameIdentities(config_entry'.devices, SupportedListed')
          ELSE /\ config_entry' = config_entry
               /\ flow_result' = "form"
               /\ errors' = (IF ListingExc' = ApiAuthError THEN "auth"
                             ELSE IF ListingExc' = ApiError THEN "api"
                             ELSE IF ListingExc' # NoError THEN "unknown"
                             ELSE "no-devices")]_vars

\* The session raised while the form held another token and endpoint than
\* the entry.
C29_Witness ==
    /\ Submitted
    /\ step_id = "init"
    /\ flow_response = ConnectionFailed
    /\ errors = "unknown"
    /\ user_input.api_token # config_entry.api_token
    /\ user_input.api_endpoint # config_entry.api_endpoint
    /\ Len(config_entry.devices) = 2

\* The token as the sanitized headers show it: what follows "Bearer ".
ShownToken ==
    SubSeq(sanitized.Authorization, Len(Bearer) + 1, Len(sanitized.Authorization))

\* C30: once the client is built, and after each logging of request
\* headers, the sanitized Authorization header is "Bearer " and a string as
\* long as the token that is all stars for a token of at most 12 characters
\* and otherwise shows the first 8 and the last 4 characters around stars, so
\* never the whole token; the other headers are as they were, and
\* self._headers still carries the token unmasked.
C30_TokenMasked ==
    log_pc \in {"built", "logged"} =>
        LET n == Len(api_token)
        IN  /\ startswith(sanitized.Authorization, Bearer)
            /\ Len(ShownToken) = n
            /\ n <= 12 => \A k \in 1..n : ShownToken[k] = "*"
            /\ n > 12 => \A k \in 1..n :
                   ShownToken[k] = IF k <= 8 \/ k > n - 4 THEN api_token[k] ELSE "*"
            /\ n > 0 => ShownToken # api_token
            /\ sanitized.Accept = headers.Accept
            /\ sanitized.Cache_Control = headers.Cache_Control
            /\ headers = Headers(api_token)

C30_Witness ==
    /\ log_pc = "logged"
    /\ Len(api_token) = 14
    /\ api_token[9] = "k"
    /\ api_token[10] = "z"
    /\ ShownToken[9] = "*"
    /\ ShownToken[11] = api_token[11]
    /\ headers.Authorization = Bearer \o api_token
====
